---------------------------- MODULE Spec2Model ----------------------------
(***************************************************************************)
(* Model of the interactive recording session engine of                    *)
(* backend/interactive_interview.py: AudioRecorder, CountdownTimer and     *)
(* InteractiveInterview (record_answer, submit_interview, run_interview),  *)
(* with the submit endpoint of backend/main.py as the persistence side.    *)
(*                                                                         *)
(* Threads are modelled at the granularity of the shared-memory accesses   *)
(* of the Python source: every read or write of an attribute of a shared   *)
(* object that the source performs in a statement of its own is a step.    *)
(***************************************************************************)
EXTENDS Integers, Sequences, FiniteSets, TLC

\* ------------------------------------------------------------------ bounds
MaxRec == 2          \* record threads (and input streams) one recorder may create
MaxChunks == 2       \* chunks the capture callback delivers in one run
MaxSeconds == 2      \* largest time limit of a question
MaxTimerThreads == 2 \* countdown threads one CountdownTimer may create
MaxApiCalls == 2     \* method calls each client thread of the harnesses makes

\* ------------------------------------------------------------- identities
None == 0
RecIds == 1..MaxRec
TimerIds == 1..MaxTimerThreads
\* The threads that call AudioRecorder methods: the foreground of
\* record_answer, the thread record_answer starts for start_recording, the
\* countdown thread (through the timer callback), and two client threads used
\* to exercise the class on its own.
Callers == {"fg", "st", "tm", "c1", "c2"}
Clients == {"c1", "c2"}

VARIABLES
    \* AudioRecorder
    recording, audio_data, stream_ref, thread_ref, lock,
    \* sounddevice streams and the record threads, by id
    sstate, closes, cb, rpc, held, nextRec,
    \* threads calling recorder methods
    pc, ret,
    \* CountdownTimer
    running, remaining, seconds, tpc, tmp, fired, nextTimer,
    \* record_answer: the duration save_recording returned, the length of the
    \* buffer when it began to read, and the state of the file it was given
    result, svlen, wav,
    \* record_answer: the KeyboardInterrupt handler has run
    cancelled,
    \* history of the run
    stopsDone, stopReturned, startsBegun, calls,
    \* how the latest start_recording call of each thread ended
    started,
    \* InteractiveInterview: the session and a submit in progress; uploads and
    \* posts list the calls made for the command being processed, stored counts
    \* the responses the submit endpoint has stored
    cursor, recordings, spc, cmd, payload, upq, upi, uploads, posts, stored, submits,
    \* run_interview: the cursor when the latest command was read, the argument
    \* of that command and what was printed for it; the directory of temporary
    \* recordings; the participant id; the second the server's clock shows
    was, arg, out, dir, participant_id, now,
    \* main.py: the configured key, the campaigns and interviews collections
    \* and the latest response sent
    API_KEY, campaigns, interviews, reply,
    \* cli_test.py: the step run_full_test_suite is at, the X-API-Key header its
    \* session sends, and what its methods returned
    suite, session_key, campaign_id, campaign, response_id,
    \* upload_recording: the question of each request being handled, the
    \* position of its handler, its local_path, the files of UPLOAD_FOLDER,
    \* the blobs of the bucket and the responses
    form, upc, local_path, files, blobs, upreply

recVars == <<recording, audio_data, stream_ref, thread_ref, lock>>
devVars == <<sstate, closes, cb, rpc, held, nextRec>>
callVars == <<pc, ret>>
timerVars == <<running, remaining, seconds, tpc, tmp, fired, nextTimer>>
raVars == <<result, svlen, wav, cancelled>>
histVars == <<stopsDone, stopReturned, startsBegun, calls, started>>
sessVars == <<cursor, recordings, spc, cmd, payload, upq, upi, uploads, posts, stored,
              submits>>
ioVars == <<was, arg, out, dir, participant_id, now>>
apiVars == <<API_KEY, campaigns, interviews, reply, suite, session_key, campaign_id,
             campaign, response_id>>
upVars == <<form, upc, local_path, files, blobs, upreply>>
srvVars == <<apiVars, upVars>>
clientVars == <<recVars, devVars, callVars, timerVars, raVars, histVars, sessVars>>
vars == <<clientVars, ioVars, srvVars>>

Goto(t, l) == pc' = [pc EXCEPT ![t] = l]
Call(t, entry, r) == /\ pc' = [pc EXCEPT ![t] = entry]
                     /\ ret' = [ret EXCEPT ![t] = r]


\* ------------------------------------------------------ sounddevice streams
\* Stream.stop(): PortAudio returns from Pa_StopStream only when no callback of
\* the stream is executing, so the call blocks while one is.  Stopping a stream
\* that is not active changes nothing (sounddevice ignores the error code).
CanStopOrClose(s) == cb[s] = "idle"
StreamStop(s) ==
    sstate' = [sstate EXCEPT ![s] = IF @ = "active" THEN "stopped" ELSE @]
\* Stream.close(): releases the device handle.  close() does not raise on a
\* stream that was already closed; the repeated release is counted.
StreamClose(s) ==
    /\ sstate' = [sstate EXCEPT ![s] = "closed"]
    /\ closes' = [closes EXCEPT ![s] = @ + 1]

\* --------------------------------------- AudioRecorder.start_recording(t)
\* `if self.recording: return`: the call returns None, nothing is raised
AlreadyRecording == recording

StartCheck(t) ==
    /\ pc[t] = "start_chk"
    /\ pc' = [pc EXCEPT ![t] = IF AlreadyRecording THEN ret[t] ELSE "start_lock"]
    /\ started' = [started EXCEPT ![t] = IF AlreadyRecording THEN "ignored" ELSE "none"]
    /\ UNCHANGED <<recVars, devVars, ret, timerVars, raVars, stopsDone, stopReturned,
                   startsBegun, calls, sessVars, ioVars, srvVars>>

\* `with self._lock:` entered
StartLock(t) ==
    /\ pc[t] = "start_lock"
    /\ ~lock
    /\ lock' = TRUE
    /\ Goto(t, "start_set")
    /\ UNCHANGED <<recording, audio_data, stream_ref, thread_ref, devVars, ret,
                   timerVars, raVars, histVars, sessVars, ioVars, srvVars>>

\* `self.recording = True; self.audio_data = []`, lock released
StartSet(t) ==
    /\ pc[t] = "start_set"
    /\ recording' = TRUE
    /\ audio_data' = <<>>
    /\ lock' = FALSE
    /\ Goto(t, "start_mk")
    /\ UNCHANGED <<stream_ref, thread_ref, devVars, ret, timerVars, raVars, histVars,
                   sessVars, ioVars, srvVars>>

\* `self._recording_thread = threading.Thread(target=record_callback, ...)`
StartMakeThread(t) ==
    /\ pc[t] = "start_mk"
    /\ nextRec <= MaxRec
    /\ thread_ref' = nextRec
    /\ rpc' = [rpc EXCEPT ![nextRec] = "new"]
    /\ nextRec' = nextRec + 1
    /\ Goto(t, "start_go")
    /\ UNCHANGED <<recording, audio_data, stream_ref, lock, sstate, closes, cb, held,
                   ret, timerVars, raVars, histVars, sessVars, ioVars, srvVars>>

\* the thread self._recording_thread refers to can be started
StartableThread == thread_ref # None /\ rpc[thread_ref] = "new"

\* `self._recording_thread.start()`: the attribute is read again.  None raises
\* AttributeError and a thread that was already started raises RuntimeError;
\* either ends start_recording without starting a thread.
StartRunThread(t) ==
    /\ pc[t] = "start_go"
    /\ rpc' = IF StartableThread
              THEN [rpc EXCEPT ![thread_ref] = "open"]
              ELSE rpc
    /\ started' = [started EXCEPT ![t] = IF StartableThread THEN "begun" ELSE "raised"]
    /\ pc' = [pc EXCEPT ![t] = ret[t]]
    /\ UNCHANGED <<recVars, sstate, closes, cb, held, nextRec, ret, timerVars,
                   raVars, stopsDone, stopReturned, startsBegun, calls, sessVars, ioVars, srvVars>>

\* ------------------------------------------- record_callback (thread k)
\* `self._stream = sd.InputStream(...)`: the device opens, or the constructor
\* raises and the handler runs.
RecOpen(k) ==
    /\ rpc[k] = "open"
    /\ \/ /\ sstate' = [sstate EXCEPT ![k] = "open"]
          /\ stream_ref' = k
          /\ rpc' = [rpc EXCEPT ![k] = "enter"]
       \/ /\ rpc' = [rpc EXCEPT ![k] = "exc_lock"]
          /\ UNCHANGED <<sstate, stream_ref>>
    /\ UNCHANGED <<recording, audio_data, thread_ref, lock, closes, cb, held, nextRec,
                   callVars, timerVars, raVars, histVars, sessVars, ioVars, srvVars>>

\* `with self._stream:` reads the attribute and starts that stream.  None has
\* no __enter__ and a closed stream cannot be started: both raise.
RecEnter(k) ==
    /\ rpc[k] = "enter"
    /\ IF stream_ref = None \/ sstate[stream_ref] = "closed"
       THEN /\ rpc' = [rpc EXCEPT ![k] = "exc_lock"]
            /\ UNCHANGED <<sstate, held>>
       ELSE /\ sstate' = [sstate EXCEPT ![stream_ref] = "active"]
            /\ held' = [held EXCEPT ![k] = stream_ref]
            /\ rpc' = [rpc EXCEPT ![k] = "loop"]
    /\ UNCHANGED <<recVars, closes, cb, nextRec, callVars, timerVars, raVars, histVars,
                   sessVars, ioVars, srvVars>>

\* `while self.recording: sd.sleep(100)` left
RecLoopExit(k) ==
    /\ rpc[k] = "loop"
    /\ ~recording
    /\ rpc' = [rpc EXCEPT ![k] = "exit"]
    /\ UNCHANGED <<recVars, sstate, closes, cb, held, nextRec, callVars, timerVars,
                   raVars, histVars, sessVars, ioVars, srvVars>>

\* The stream scope is left: Stream.__exit__ stops and closes the stream.
RecScopeExit(k) ==
    /\ rpc[k] = "exit"
    /\ CanStopOrClose(held[k])
    /\ StreamClose(held[k])
    /\ rpc' = [rpc EXCEPT ![k] = "done"]
    /\ UNCHANGED <<recVars, cb, held, nextRec, callVars, timerVars, raVars, histVars,
                   sessVars, ioVars, srvVars>>

\* `except Exception: with self._lock: self.recording = False`
RecExcLock(k) ==
    /\ rpc[k] = "exc_lock"
    /\ ~lock
    /\ lock' = TRUE
    /\ rpc' = [rpc EXCEPT ![k] = "exc_set"]
    /\ UNCHANGED <<recording, audio_data, stream_ref, thread_ref, sstate, closes, cb,
                   held, nextRec, callVars, timerVars, raVars, histVars, sessVars, ioVars, srvVars>>

\* a handler that leaves the flag as it finds it
FlagKept == recording

\* `self.recording = False` in the handler
FlagAfterError == FALSE

RecExcSet(k) ==
    /\ rpc[k] = "exc_set"
    /\ recording' = FlagAfterError
    /\ lock' = FALSE
    /\ rpc' = [rpc EXCEPT ![k] = "done"]
    /\ UNCHANGED <<audio_data, stream_ref, thread_ref, sstate, closes, cb, held,
                   nextRec, callVars, timerVars, raVars, histVars, sessVars, ioVars, srvVars>>

\* ------------------------------- AudioRecorder._audio_callback (stream s)
\* PortAudio invokes the callback of an active stream; `if self.recording:` is
\* read without the lock.
CallbackCheck(s) ==
    /\ sstate[s] = "active"
    /\ cb[s] = "idle"
    /\ Len(audio_data) < MaxChunks
    /\ recording
    /\ cb' = [cb EXCEPT ![s] = "want"]
    /\ UNCHANGED <<recVars, sstate, closes, rpc, held, nextRec, callVars, timerVars,
                   raVars, histVars, sessVars, ioVars, srvVars>>

CallbackLock(s) ==
    /\ cb[s] = "want"
    /\ ~lock
    /\ lock' = TRUE
    /\ cb' = [cb EXCEPT ![s] = "locked"]
    /\ UNCHANGED <<recording, audio_data, stream_ref, thread_ref, sstate, closes, rpc,
                   held, nextRec, callVars, timerVars, raVars, histVars, sessVars, ioVars, srvVars>>

\* `self.audio_data.append(indata.copy())`, lock released
CallbackAppend(s) ==
    /\ cb[s] = "locked"
    /\ audio_data' = Append(audio_data, s)
    /\ lock' = FALSE
    /\ cb' = [cb EXCEPT ![s] = "idle"]
    /\ UNCHANGED <<recording, stream_ref, thread_ref, sstate, closes, rpc, held,
                   nextRec, callVars, timerVars, raVars, histVars, sessVars, ioVars, srvVars>>

\* ---------------------------------------- AudioRecorder.stop_recording(t)
\* `with self._lock:` entered
StopLock(t) ==
    /\ pc[t] = "stop_lock"
    /\ ~lock
    /\ lock' = TRUE
    /\ Goto(t, "stop_set")
    /\ UNCHANGED <<recording, audio_data, stream_ref, thread_ref, devVars, ret,
                   timerVars, raVars, histVars, sessVars, ioVars, srvVars>>

\* `self.recording = False`, lock released
StopSet(t) ==
    /\ pc[t] = "stop_set"
    /\ recording' = FALSE
    /\ lock' = FALSE
    /\ Goto(t, "stop_chk")
    /\ UNCHANGED <<audio_data, stream_ref, thread_ref, devVars, ret, timerVars,
                   raVars, histVars, sessVars, ioVars, srvVars>>

\* `if self._stream:`
StreamIsSet == stream_ref # None

StopCheckStream(t) ==
    /\ pc[t] = "stop_chk"
    /\ Goto(t, IF StreamIsSet THEN "stop_stop" ELSE "stop_thr")
    /\ UNCHANGED <<recVars, devVars, ret, timerVars, raVars, histVars, sessVars, ioVars, srvVars>>

\* `self._stream.stop()`: the attribute is read again; on None the call raises
\* AttributeError, which the handler prints before the finally clause runs.
StopStreamStop(t) ==
    /\ pc[t] = "stop_stop"
    /\ IF stream_ref = None
       THEN /\ Goto(t, "stop_fin")
            /\ UNCHANGED sstate
       ELSE /\ CanStopOrClose(stream_ref)
            /\ StreamStop(stream_ref)
            /\ Goto(t, "stop_close")
    /\ UNCHANGED <<recVars, closes, cb, rpc, held, nextRec, ret, timerVars, raVars,
                   histVars, sessVars, ioVars, srvVars>>

\* `self._stream.close()`
StopStreamClose(t) ==
    /\ pc[t] = "stop_close"
    /\ IF stream_ref = None
       THEN UNCHANGED <<sstate, closes>>
       ELSE /\ CanStopOrClose(stream_ref)
            /\ StreamClose(stream_ref)
    /\ Goto(t, "stop_fin")
    /\ UNCHANGED <<recVars, cb, rpc, held, nextRec, ret, timerVars, raVars, histVars,
                   sessVars, ioVars, srvVars>>

\* `finally: self._stream = None`
StopClearStream(t) ==
    /\ pc[t] = "stop_fin"
    /\ stream_ref' = None
    /\ Goto(t, "stop_thr")
    /\ UNCHANGED <<recording, audio_data, thread_ref, lock, devVars, ret, timerVars,
                   raVars, histVars, sessVars, ioVars, srvVars>>

\* `if self._recording_thread:`
StopCheckThread(t) ==
    /\ pc[t] = "stop_thr"
    /\ Goto(t, IF thread_ref # None THEN "stop_join" ELSE "stop_ret")
    /\ UNCHANGED <<recVars, devVars, ret, timerVars, raVars, histVars, sessVars, ioVars, srvVars>>

\* `self._recording_thread.join(timeout=1.0)`: returns when the thread has
\* ended or when the second has passed; on None, or on a thread that was never
\* started, it raises and the handler prints.  Every outcome reaches finally.
JoinReturns(r) == TRUE

StopJoin(t) ==
    /\ pc[t] = "stop_join"
    /\ thread_ref # None => JoinReturns(thread_ref)
    /\ Goto(t, "stop_tfin")
    /\ UNCHANGED <<recVars, devVars, ret, timerVars, raVars, histVars, sessVars, ioVars, srvVars>>

\* `finally: self._recording_thread = None`
StopClearThread(t) ==
    /\ pc[t] = "stop_tfin"
    /\ thread_ref' = None
    /\ Goto(t, "stop_ret")
    /\ UNCHANGED <<recording, audio_data, stream_ref, lock, devVars, ret, timerVars,
                   raVars, histVars, sessVars, ioVars, srvVars>>

\* print("Recording stopped"); stop_recording returns to its caller
StopReturn(t) ==
    /\ pc[t] = "stop_ret"
    /\ pc' = [pc EXCEPT ![t] = ret[t]]
    /\ stopsDone' = stopsDone + 1
    /\ UNCHANGED <<recVars, devVars, ret, timerVars, raVars, stopReturned, startsBegun,
                   calls, started, sessVars, ioVars, srvVars>>

\* ------------------------------------------ AudioRecorder.save_recording
SampleRate == 44100
\* frames one delivered chunk holds (the device's block size)
ChunkFrames == 11025
Frames(n) == n * ChunkFrames
\* a test that also rejects a recording of exactly half a second
TooShortOrEqual(frames) == 2 * frames <= SampleRate

\* a threshold of a quarter of a second: with it a recording of one chunk
\* is kept
TooShortQuarter(frames) == 4 * frames < SampleRate

\* `duration = len(audio_array) / self.sample_rate; if duration < 0.5:`
TooShort(frames) == 2 * frames < SampleRate

\* `if not self.audio_data: return 0.0`, read without the lock; record_answer
\* then returns None through its finally clause.
SaveCheckEmpty ==
    /\ pc["fg"] = "save_chk"
    /\ IF audio_data = <<>>
       THEN /\ result' = 0
            /\ Call("fg", "stop_lock", "ra_done")
       ELSE /\ Goto("fg", "save_read")
            /\ UNCHANGED <<result, ret>>
    /\ UNCHANGED <<recVars, devVars, timerVars, svlen, wav, cancelled, histVars,
                   sessVars, ioVars, srvVars>>

\* `np.concatenate(self.audio_data, axis=0)` starts reading the list, still
\* without the lock
SaveReadBegin ==
    /\ pc["fg"] = "save_read"
    /\ svlen' = Len(audio_data)
    /\ Goto("fg", "save_in")
    /\ UNCHANGED <<recVars, devVars, ret, timerVars, result, wav, cancelled, histVars,
                   sessVars, ioVars, srvVars>>

\* The read ends.  A recording shorter than 0.5 s gives 0.0 and no file is
\* opened; otherwise `wave.open(filename, 'wb')` and the writes either succeed,
\* and the duration (here in frames) is returned, or raise, and the handler
\* returns 0.0.  record_answer returns the recording, or None for 0.0, and its
\* finally clause calls stop_recording once more.
SaveReadEnd ==
    /\ pc["fg"] = "save_in"
    /\ IF TooShort(Frames(Len(audio_data)))
       THEN /\ result' = 0
            /\ UNCHANGED wav
       ELSE \/ /\ result' = Frames(Len(audio_data))
               /\ wav' = "written"
            \/ /\ result' = 0
               /\ wav' = "failed"
    /\ Call("fg", "stop_lock", "ra_done")
    /\ UNCHANGED <<recVars, devVars, timerVars, svlen, cancelled, histVars, sessVars, ioVars, srvVars>>

\* -------------------------------------------------------- CountdownTimer
\* start(): `self.running = True`
TimerStartRun(t) ==
    /\ pc[t] = "ts_run"
    /\ running' = TRUE
    /\ Goto(t, "ts_rem")
    /\ UNCHANGED <<recVars, devVars, ret, remaining, seconds, tpc, tmp, fired,
                   nextTimer, raVars, histVars, sessVars, ioVars, srvVars>>

\* start(): `self.remaining = self.seconds`
TimerStartRemaining(t) ==
    /\ pc[t] = "ts_rem"
    /\ remaining' = seconds
    /\ Goto(t, "ts_spawn")
    /\ UNCHANGED <<recVars, devVars, ret, running, seconds, tpc, tmp, fired,
                   nextTimer, raVars, histVars, sessVars, ioVars, srvVars>>

\* start(): `threading.Thread(target=countdown, daemon=True).start()`
TimerStartThread(t) ==
    /\ pc[t] = "ts_spawn"
    /\ nextTimer <= MaxTimerThreads
    /\ tpc' = [tpc EXCEPT ![nextTimer] = "loop"]
    /\ nextTimer' = nextTimer + 1
    /\ pc' = [pc EXCEPT ![t] = ret[t]]
    /\ UNCHANGED <<recVars, devVars, ret, running, remaining, seconds, tmp, fired,
                   raVars, histVars, sessVars, ioVars, srvVars>>

\* stop(): `self.running = False`
TimerStop == running' = FALSE

\* countdown(): `while self.running and self.remaining > 0:`
CountdownContinues == running /\ remaining > 0

TimerLoop(k) ==
    /\ tpc[k] = "loop"
    /\ tpc' = [tpc EXCEPT ![k] = IF CountdownContinues THEN "sleep" ELSE "exp"]
    /\ UNCHANGED <<recVars, devVars, callVars, running, remaining, seconds, tmp,
                   fired, nextTimer, raVars, histVars, sessVars, ioVars, srvVars>>

\* `time.sleep(1)` ends and `self.remaining -= 1` reads the attribute
TimerTick(k) ==
    /\ tpc[k] = "sleep"
    /\ tmp' = [tmp EXCEPT ![k] = remaining]
    /\ tpc' = [tpc EXCEPT ![k] = "dec"]
    /\ UNCHANGED <<recVars, devVars, callVars, running, remaining, seconds, fired,
                   nextTimer, raVars, histVars, sessVars, ioVars, srvVars>>

\* `self.remaining -= 1` writes the attribute
TimerDecrement(k) ==
    /\ tpc[k] = "dec"
    /\ remaining' = tmp[k] - 1
    /\ tpc' = [tpc EXCEPT ![k] = "loop"]
    /\ UNCHANGED <<recVars, devVars, callVars, running, seconds, tmp, fired,
                   nextTimer, raVars, histVars, sessVars, ioVars, srvVars>>

\* an expiry test that misses zero: with it no countdown ever expires
ExpiredBelowZero == remaining < 0 /\ running

\* `if self.remaining <= 0 and self.running:`
Expired == remaining <= 0 /\ running

TimerExpiryTest(k) ==
    /\ tpc[k] = "exp"
    /\ tpc' = [tpc EXCEPT ![k] = IF Expired THEN "cb" ELSE "done"]
    /\ UNCHANGED <<recVars, devVars, callVars, running, remaining, seconds, tmp,
                   fired, nextTimer, raVars, histVars, sessVars, ioVars, srvVars>>

\* print("Time's up!"); `self.callback()` with the callback of record_answer,
\* `lambda: recorder.stop_recording()`, run by the countdown thread
TimerFireStop(k) ==
    /\ tpc[k] = "cb"
    /\ pc["tm"] = "off"
    /\ fired' = [fired EXCEPT ![k] = @ + 1]
    /\ tpc' = [tpc EXCEPT ![k] = "done"]
    /\ Call("tm", "stop_lock", "tm_done")
    /\ UNCHANGED <<recVars, devVars, running, remaining, seconds, tmp, nextTimer,
                   raVars, histVars, sessVars, ioVars, srvVars>>

\* `self.callback()` with a callback that only notes the expiry
TimerFireNote(k) ==
    /\ tpc[k] = "cb"
    /\ fired' = [fired EXCEPT ![k] = @ + 1]
    /\ tpc' = [tpc EXCEPT ![k] = "done"]
    /\ UNCHANGED <<recVars, devVars, callVars, running, remaining, seconds, tmp,
                   nextTimer, raVars, histVars, sessVars, ioVars, srvVars>>

\* ------------------------------------- InteractiveInterview.record_answer
\* recorder and timer are created; start_recording is started in a thread of
\* its own and timer.start() is called
RecordAnswerBegin ==
    /\ pc["fg"] = "ra_begin"
    /\ pc' = [pc EXCEPT !["st"] = "start_chk", !["fg"] = "ts_run"]
    /\ ret' = [ret EXCEPT !["st"] = "st_done", !["fg"] = "ra_input"]
    /\ UNCHANGED <<recVars, devVars, timerVars, raVars, histVars, sessVars, ioVars, srvVars>>

\* input() returns (ENTER): `recorder.stop_recording()`
UserStop ==
    /\ pc["fg"] = "ra_input"
    /\ Call("fg", "stop_lock", "ra_tstop")
    /\ UNCHANGED <<recVars, devVars, timerVars, raVars, histVars, sessVars, ioVars, srvVars>>

\* input() raises KeyboardInterrupt: `recorder.stop_recording()`
UserCancel ==
    /\ pc["fg"] = "ra_input"
    /\ Call("fg", "stop_lock", "ra_ctstop")
    /\ UNCHANGED <<recVars, devVars, timerVars, raVars, histVars, sessVars, ioVars, srvVars>>

\* `timer.stop()` after the user's stop; save_recording follows
StopTimerThenSave ==
    /\ pc["fg"] = "ra_tstop"
    /\ TimerStop
    /\ stopReturned' = TRUE
    /\ Goto("fg", "save_chk")
    /\ UNCHANGED <<recVars, devVars, ret, remaining, seconds, tpc, tmp, fired,
                   nextTimer, raVars, stopsDone, startsBegun, started, calls, sessVars, ioVars, srvVars>>

\* `timer.stop()` in the KeyboardInterrupt handler; `return None`, and the
\* finally clause calls stop_recording
StopTimerThenCancel ==
    /\ pc["fg"] = "ra_ctstop"
    /\ TimerStop
    /\ stopReturned' = TRUE
    /\ result' = 0
    /\ cancelled' = TRUE
    /\ Call("fg", "stop_lock", "ra_done")
    /\ UNCHANGED <<recVars, devVars, remaining, seconds, tpc, tmp, fired,
                   nextTimer, svlen, wav, stopsDone, startsBegun, started, calls,
                   sessVars, ioVars, srvVars>>

\* ------------------------------------------ InteractiveInterview: session
NumQuestions == 2    \* questions of the loaded campaign
MaxRecs == 2         \* recordings attached to one question
MaxRecChunks == 3    \* chunks in the longest recording of a session
MaxClock == 1        \* seconds that pass on the server's clock in one session
MaxSubmits == 2      \* runs of submit_interview in one session

Positions == 1..NumQuestions
\* the campaign's questions, in order: `self.campaign['questions']`
QuestionId(i) == 100 + i
QIds == {QuestionId(i) : i \in Positions}
\* durations (in frames) save_recording can return for a kept recording
KeptDurations == {Frames(n) : n \in {m \in 1..MaxRecChunks : ~TooShort(Frames(m))}}

\* __init__: `self.recordings = {}`
NoKeys == [q \in {} |-> <<>>]
\* get_campaign: `self.recordings = {q['id']: [] for q in questions}`
NoRecordings == [q \in QIds |-> <<>>]

\* `question = self.campaign['questions'][self.current_question_index]`
CurrentQuestion == QuestionId(cursor + 1)

\* display_question: False for `question_index < 0 or question_index >=
\* len(questions)`, on which run_interview leaves the loop; else the question
\* is shown and the command is read
DisplayQuestion(i) == ~(i < 0 \/ i >= NumQuestions)

\* what run_interview prints for a command: a message, and with it the list
\* of a blocked submit or the three numbers of show_status
Said(m) == [msg |-> m, list |-> <<>>, index |-> 0, total |-> 0, count |-> 0]
Quiet == Said("none")
\* the argument of a command: none, an integer literal, a word that is not
\* one, or more than one word
NoArg == [kind |-> "none", n |-> 0]
IntArg(n) == [kind |-> "int", n |-> n]

\* cleanup_temp_files: `shutil.rmtree(self.recordings_dir)` removes the
\* directory, or raises, and the handler prints a warning and returns
CleanupTempFiles == dir' \in {"removed", dir}

\* the command line is read at line 464 and dispatched
Command(c, a, o) ==
    /\ spc = "prompt"
    /\ DisplayQuestion(cursor)
    /\ cmd' = c
    /\ arg' = a
    /\ out' = o
    /\ was' = cursor
    /\ uploads' = <<>>
    /\ posts' = <<>>

\* get_campaign: the campaign is fetched and the recordings are keyed by its
\* questions, or the fetch fails and run_interview returns through finally
GetCampaign ==
    /\ spc = "fetch"
    /\ \/ /\ recordings' = NoRecordings
          /\ spc' = "prompt"
          /\ UNCHANGED dir
       \/ /\ spc' = "failed"
          /\ CleanupTempFiles
          /\ UNCHANGED recordings
    /\ UNCHANGED <<recVars, devVars, callVars, timerVars, raVars, histVars, cursor,
                   cmd, payload, upq, upi, uploads, posts, stored, submits, was, arg,
                   out, participant_id, now, srvVars>>

\* the recording put at the head of the list instead
AttachFirst(list, rec) == <<rec>> \o list

\* `self.recordings[question['id']].append(recording)`
Attach(list, rec) == Append(list, rec)

\* the seconds the clock can show when it is read next: the client's
\* `datetime.now()` in record_answer and the server's in upload_recording
\* (the default base URL is localhost, one clock for both)
ClockValues == now..MaxClock

\* record_answer: `timestamp = datetime.now().strftime("%Y%m%d_%H%M%S")`,
\* `filename = f"{question_id}_{timestamp}.wav"` and `filepath =
\* os.path.join(self.recordings_dir, filename)`: within one session the path
\* is given by the question id and the second t the clock shows
LocalPath(q, t) == q * (MaxClock + 1) + t

\* a recording filed under the first question whatever was answered
RecordingDataOfFirst(qid, path, d) ==
    [question_id |-> QuestionId(1), file_path |-> path, duration_sec |-> d]

\* record_answer: the dictionary returned for a kept recording
RecordingData(qid, path, d) ==
    [question_id |-> qid, file_path |-> path, duration_sec |-> d]

\* command 'record': record_answer returns a recording or None; a recording is
\* appended to the list of the current question
CmdRecord ==
    /\ Command("record", NoArg, Quiet)
    /\ Len(recordings[CurrentQuestion]) < MaxRecs
    /\ \/ \E d \in KeptDurations : \E t \in ClockValues :
             /\ recordings' = [recordings EXCEPT ![CurrentQuestion] =
                    Attach(@, RecordingData(CurrentQuestion,
                                            LocalPath(CurrentQuestion, t), d))]
             /\ now' = t
       \/ UNCHANGED <<recordings, now>>
    /\ UNCHANGED <<recVars, devVars, callVars, timerVars, raVars, histVars, cursor, spc,
                   payload, upq, upi, stored, submits, dir, participant_id, srvVars>>

\* a test that lets 'next' step past the last question
NotAtLastOffByOne == cursor < NumQuestions

\* `if self.current_question_index < len(self.campaign['questions']) - 1:`
NotAtLast == cursor < NumQuestions - 1

\* command 'next'
CmdNext ==
    /\ Command("next", NoArg, IF NotAtLast THEN Quiet ELSE Said("last"))
    /\ cursor' = IF NotAtLast THEN cursor + 1 ELSE cursor
    /\ UNCHANGED <<recVars, devVars, callVars, timerVars, raVars, histVars, recordings,
                   spc, payload, upq, upi, stored, submits, dir, participant_id, now, srvVars>>

\* `if self.current_question_index > 0:`
NotAtFirst == cursor > 0

\* command 'prev'
CmdPrev ==
    /\ Command("prev", NoArg, IF NotAtFirst THEN Quiet ELSE Said("first"))
    /\ cursor' = IF NotAtFirst THEN cursor - 1 ELSE cursor
    /\ UNCHANGED <<recVars, devVars, callVars, timerVars, raVars, histVars, recordings,
                   spc, payload, upq, upi, stored, submits, dir, participant_id, now, srvVars>>

\* a range test on the number as typed: with it 'goto 0' is accepted
InRangeAsTyped(question_num) == 0 <= question_num + 1 /\ question_num < NumQuestions

\* `if 0 <= question_num < len(self.campaign['questions']):`
InRange(question_num) == 0 <= question_num /\ question_num < NumQuestions

\* command 'goto n': `question_num = int(parts[1]) - 1`; out of range the
\* message "Question number must be between 1 and <total>" is printed
CmdGoto(n) ==
    /\ Command("goto", IntArg(n),
               IF InRange(n - 1) THEN Quiet
               ELSE [Said("range") EXCEPT !.total = NumQuestions])
    /\ cursor' = IF InRange(n - 1) THEN n - 1 ELSE cursor
    /\ UNCHANGED <<recVars, devVars, callVars, timerVars, raVars, histVars, recordings,
                   spc, payload, upq, upi, stored, submits, dir, participant_id, now, srvVars>>

\* command 'goto' followed by a word that is no integer literal (`int` raises
\* ValueError, "Invalid question number" is printed), or by no word or several
\* (`len(parts) == 2` fails, nothing is printed)
CmdGotoOther(kind) ==
    /\ Command("goto", [kind |-> kind, n |-> 0],
               IF kind = "word" THEN Said("invalid") ELSE Quiet)
    /\ UNCHANGED <<recVars, devVars, callVars, timerVars, raVars, histVars, cursor,
                   recordings, spc, payload, upq, upi, stored, submits, dir,
                   participant_id, now, srvVars>>

RECURSIVE SumLen(_, _)
\* `sum(len(recs) for recs in self.recordings.values())`
SumLen(i, recs) ==
    IF i > NumQuestions THEN 0
    ELSE Len(recs[QuestionId(i)]) + SumLen(i + 1, recs)
\* a count of the answered questions instead of the recordings
AnsweredQuestions(recs) == Cardinality({q \in QIds : recs[q] # <<>>})

TotalRecordings(recs) == SumLen(1, recs)

\* command 'status': show_status prints the current question number, the
\* number of questions and the total number of recordings
CmdStatus ==
    /\ Command("status", NoArg,
               [Said("status") EXCEPT !.index = cursor + 1,
                                      !.total = NumQuestions,
                                      !.count = TotalRecordings(recordings)])
    /\ UNCHANGED <<recVars, devVars, callVars, timerVars, raVars, histVars, cursor,
                   recordings, spc, payload, upq, upi, stored, submits, dir,
                   participant_id, now, srvVars>>

\* commands 'help' (show_help), 'replay' (`continue`) and unknown ones
\* ("Unknown command" is printed); 'quit' or 'exit' not confirmed
OtherSays(c) == IF c \in {"help", "unknown"} THEN Said(c) ELSE Quiet

CmdOther(c) ==
    /\ Command(c, NoArg, OtherSays(c))
    /\ UNCHANGED <<recVars, devVars, callVars, timerVars, raVars, histVars, cursor,
                   recordings, spc, payload, upq, upi, stored, submits, dir,
                   participant_id, now, srvVars>>

\* command 'quit' confirmed: the loop is left and the finally clause runs
CmdQuit ==
    /\ Command("quit", NoArg, Quiet)
    /\ spc' = "ended"
    /\ CleanupTempFiles
    /\ UNCHANGED <<recVars, devVars, callVars, timerVars, raVars, histVars, cursor,
                   recordings, payload, upq, upi, stored, submits, participant_id, now, srvVars>>

\* KeyboardInterrupt (or EOFError) raised by `input()` at line 464: it leaves
\* run_interview through the finally clause
CmdInterrupt ==
    /\ Command("interrupt", NoArg, Quiet)
    /\ spc' = "crashed"
    /\ CleanupTempFiles
    /\ UNCHANGED <<recVars, devVars, callVars, timerVars, raVars, histVars, cursor,
                   recordings, payload, upq, upi, stored, submits, participant_id, now, srvVars>>

RECURSIVE UnansweredFrom(_, _)
\* `for i, question in enumerate(questions): if not self.recordings.get(id):
\*      unanswered_questions.append(i + 1)`
UnansweredFrom(i, recs) ==
    IF i > NumQuestions THEN <<>>
    ELSE (IF recs[QuestionId(i)] = <<>> THEN <<i>> ELSE <<>>)
         \o UnansweredFrom(i + 1, recs)
\* an enumeration that skips the first question: with it a submit passes
\* although question 1 has no recording
UnansweredAfterFirst(recs) == UnansweredFrom(2, recs)

\* a list of the indices `i` instead of the positions `i + 1`
UnansweredZeroBased(recs) ==
    [j \in DOMAIN UnansweredFrom(1, recs) |-> UnansweredFrom(1, recs)[j] - 1]

Unanswered(recs) == UnansweredFrom(1, recs)

\* command 'submit': blocked while a question is unanswered, and the
\* unanswered questions are listed; else the confirmation is asked
CmdSubmit ==
    /\ Command("submit", NoArg,
               IF Unanswered(recordings) # <<>>
               THEN [Said("blocked") EXCEPT !.list = Unanswered(recordings)]
               ELSE Quiet)
    /\ spc' = IF Unanswered(recordings) # <<>> THEN "prompt" ELSE "confirm"
    /\ UNCHANGED <<recVars, devVars, callVars, timerVars, raVars, histVars, cursor,
                   recordings, payload, upq, upi, stored, submits, dir,
                   participant_id, now, srvVars>>

\* the confirmation is not 'yes'/'y'
SubmitDeclined ==
    /\ spc = "confirm"
    /\ spc' = "prompt"
    /\ UNCHANGED <<recVars, devVars, callVars, timerVars, raVars, histVars, cursor,
                   recordings, cmd, payload, upq, upi, uploads, posts, stored, submits,
                   ioVars, srvVars>>

\* submit_interview starts: collect_demographics returns, or `int(input())`
\* raises ValueError, which leaves run_interview through its finally clause;
\* then `submission_data = {..., "recordings": {}}`
SubmitBegin ==
    /\ spc = "confirm"
    /\ submits < MaxSubmits
    /\ \/ /\ spc' = "upload"
          /\ payload' = NoRecordings
          /\ upq' = 1
          /\ upi' = 1
          /\ UNCHANGED dir
       \/ /\ spc' = "crashed"
          /\ CleanupTempFiles
          /\ UNCHANGED <<payload, upq, upi>>
    /\ UNCHANGED <<recVars, devVars, callVars, timerVars, raVars, histVars, cursor,
                   recordings, cmd, uploads, posts, stored, submits, was, arg, out,
                   participant_id, now, srvVars>>

\* `if uploaded_url:` the entry is appended to the list of the question
KeepsEntry(url) == url # None

\* a loop that stops after the first recording of a question: with it the
\* later recordings of a question are never uploaded
InnerLoopDoneAfterFirst(i, recs) == i > 1 \/ i > Len(recs)

\* `for recording in recordings:` has gone through the list
InnerLoopDone(i, recs) == i > Len(recs)

\* The upload endpoint of main.py stores the file under
\* `recordings/{campaign_id}/{participant_id}/{question_id}/{filename}` with
\* `filename = datetime.now().strftime('%Y%m%d%H%M%S') + ".wav"`: within one
\* session the path is given by the question and the second t of the server's
\* clock, and the reference returned is the bucket's address followed by it.
FirebasePath(q, t) == q * (MaxClock + 1) + t

\* one pass of `for question_id, recordings in self.recordings.items():
\*                 for recording in recordings:` with upload_recording, which
\* returns the stored reference, or None when the upload failed
UploadStep ==
    /\ spc = "upload"
    /\ LET q == QuestionId(upq)
           recs == recordings[q]
       IN IF InnerLoopDone(upi, recs)
          THEN /\ upq' = upq + 1
               /\ upi' = 1
               /\ spc' = IF upq + 1 > NumQuestions THEN "post" ELSE "upload"
               /\ UNCHANGED <<payload, uploads, now>>
          ELSE \E t \in ClockValues : \E url \in {None, FirebasePath(q, t)} :
               /\ now' = t
               /\ uploads' = Append(uploads, [question_id |-> q, index |-> upi,
                                              url |-> url])
               /\ payload' = IF KeepsEntry(url)
                             THEN [payload EXCEPT ![q] = Append(@,
                                     [question_id |-> q, file_path |-> url,
                                      duration_sec |-> recs[upi].duration_sec])]
                             ELSE payload
               /\ upi' = upi + 1
               /\ UNCHANGED <<upq, spc>>
    /\ UNCHANGED <<recVars, devVars, callVars, timerVars, raVars, histVars, cursor,
                   recordings, cmd, posts, stored, submits, was, arg, out, dir,
                   participant_id, srvVars>>

\* The answers to POST interviews/submit: 201 is the status submit_interview
\* takes for success; 200 is the status the submit endpoint of main.py sends
\* once it has stored the response, 400 the one it sends when it has not,
\* 401 the one require_api_key sends.
\* 0 stands for a request that raised (no answer).
PersistAnswers == {0, 200, 201, 400, 401}
Stores(status) == status \in {200, 201}
\* a test that takes every answer for success
ReportsSuccessOnAnswer(status) == status # 0

\* `if response.status_code == 201: return True`, everything else False
ReportsSuccess(status) == status = 201

\* `self.session.post(.../interviews/submit, json=submission_data)` and the
\* return of submit_interview; run_interview leaves the loop on True, and its
\* finally clause runs
PostStep ==
    /\ spc = "post"
    /\ \E status \in PersistAnswers :
         /\ posts' = Append(posts, [recordings |-> payload,
                                    attached |-> recordings,
                                    uploads |-> uploads,
                                    status |-> status,
                                    returned |-> ReportsSuccess(status)])
         /\ stored' = IF Stores(status) THEN stored + 1 ELSE stored
         /\ spc' = IF ReportsSuccess(status) THEN "ended" ELSE "prompt"
         /\ IF ReportsSuccess(status) THEN CleanupTempFiles ELSE UNCHANGED dir
    /\ submits' = submits + 1
    /\ payload' = NoRecordings
    /\ upq' = 1
    /\ upi' = 1
    /\ UNCHANGED <<recVars, devVars, callVars, timerVars, raVars, histVars, cursor,
                   recordings, cmd, uploads, was, arg, out, participant_id, now, srvVars>>

SessionNext ==
    \/ GetCampaign
    \/ CmdRecord \/ CmdNext \/ CmdPrev
    \/ \E n \in (-1)..(NumQuestions + 1) : CmdGoto(n)
    \/ \E kind \in {"none", "word", "many"} : CmdGotoOther(kind)
    \/ CmdStatus
    \/ \E c \in {"help", "replay", "unknown", "quit"} : CmdOther(c)
    \/ CmdQuit \/ CmdInterrupt \/ CmdSubmit \/ SubmitDeclined \/ SubmitBegin
    \/ UploadStep \/ PostStep

\* record_answer has returned to the 'record' branch of run_interview:
\* `if recording: self.recordings[question['id']].append(recording)`, where
\* record_answer returned a recording for a duration above 0 and None otherwise
AttachRecording ==
    /\ pc["fg"] = "ra_done"
    /\ Goto("fg", "ra_ret")
    /\ \E t \in ClockValues :
          /\ now' = t
          /\ recordings' = IF result > 0
                           THEN [recordings EXCEPT ![CurrentQuestion] =
                                   Attach(@, RecordingData(CurrentQuestion,
                                              LocalPath(CurrentQuestion, t), result))]
                           ELSE recordings
    /\ UNCHANGED <<recVars, devVars, ret, timerVars, raVars, histVars, cursor, spc,
                   cmd, payload, upq, upi, uploads, posts, stored, submits, was, arg,
                   out, dir, participant_id, srvVars>>

\* ------------------------------------------------ the Flask application
MaxCampaigns == 2    \* campaigns the create endpoint can store in one run
MaxResponses == 2    \* responses the submit endpoint can store in one run

\* Python's None among the identifiers
Nothing == <<"none", 0>>
\* `str(uuid.uuid4())`: the identifiers the server generates
ServerIds == {<<"uuid", i>> : i \in 1..MaxCampaigns}
\* `str(uuid.uuid4())` in save_interview_response
ResponseIds == {<<"response", i>> : i \in 1..MaxResponses}
\* `f"test_campaign_{uuid.uuid4().hex[:8]}"`: the identifier the tester makes
\* up; its text never has the form of a generated uuid
ClientIds == {<<"test_campaign", 1>>}
CampaignIds == ServerIds \cup ClientIds

\* the X-API-Key header of a request: absent, or present with a value
NoHeader == [present |-> FALSE, value |-> ""]
Header(v) == [present |-> TRUE, value |-> v]
Keys == {"", "secret"}
Headers == {NoHeader} \cup {Header(v) : v \in Keys \cup {"wrong"}}

\* the rules of app.url_map with their endpoints: the routes the tester
\* calls, and the rule Flask adds for static files
Rules ==
    {[rule |-> <<"api", "health">>, method |-> "GET", endpoint |-> "health_check"],
     [rule |-> <<"api", "campaigns">>, method |-> "POST", endpoint |-> "create_campaign"],
     [rule |-> <<"api", "campaigns">>, method |-> "GET", endpoint |-> "list_campaigns"],
     [rule |-> <<"api", "campaigns", "<campaign_id>">>, method |-> "GET",
      endpoint |-> "get_campaign"],
     [rule |-> <<"api", "interviews", "submit">>, method |-> "POST",
      endpoint |-> "submit_interview"],
     [rule |-> <<"api", "campaigns", "<campaign_id>", "responses">>, method |-> "GET",
      endpoint |-> "get_campaign_responses_endpoint"],
     [rule |-> <<"static", "<path:filename>">>, method |-> "GET", endpoint |-> "static"]}
Endpoints == {r.endpoint : r \in Rules}
RuleOf(e) == (CHOOSE r \in Rules : r.endpoint = e).rule

\* the decorator loop: `if rule.rule.startswith("/api/") and rule.rule !=
\* "/api/health": app.view_functions[rule.endpoint] = require_api_key(...)`
Wrapped(e) ==
    \E r \in Rules : /\ r.endpoint = e
                     /\ r.rule[1] = "api"
                     /\ r.rule # <<"api", "health">>

\* a comparison that reads an absent header as the empty string
KeyMatchesOrUnset(h) == h.value = API_KEY

\* wrapper: `api_key = request.headers.get("X-API-Key")` and the test
\* `api_key != API_KEY` negated; an absent header gives None, which equals no
\* string
KeyMatches(h) == h.present /\ h.value = API_KEY

NoReply == [endpoint |-> "none", rule |-> <<"none">>, key |-> NoHeader, status |-> 0,
            id |-> Nothing, name |-> "", ran |-> FALSE]
\* the response to a request for endpoint e sent with header h
Answer(e, h, st, i, n, r) ==
    reply' = [endpoint |-> e, rule |-> RuleOf(e), key |-> h, status |-> st,
              id |-> i, name |-> n, ran |-> r]

StoredIds == {c.id : c \in campaigns}

\* health_check
health_check(h) ==
    /\ Answer("health_check", h, 200, Nothing, "", TRUE)
    /\ UNCHANGED <<campaigns, interviews>>

\* create_campaign: the id of the payload is dropped, the campaign gets a
\* generated id and is saved under it, and the answer is 201 with that id; an
\* exception (validation, Firestore) gives 400
create_campaign(h, id, name) ==
    \/ \E u \in ServerIds \ StoredIds :
          /\ campaigns' = campaigns \cup {[id |-> u, name |-> name]}
          /\ Answer("create_campaign", h, 201, u, "", TRUE)
          /\ UNCHANGED interviews
    \/ /\ Answer("create_campaign", h, 400, Nothing, "", TRUE)
       /\ UNCHANGED <<campaigns, interviews>>

\* list_campaigns
list_campaigns(h) ==
    /\ Answer("list_campaigns", h, 200, Nothing, "", TRUE)
    /\ UNCHANGED <<campaigns, interviews>>

\* get_campaign: the document stored under campaign_id, or 404
get_campaign(h, id) ==
    /\ IF id \in StoredIds
       THEN Answer("get_campaign", h, 200, id,
                   (CHOOSE c \in campaigns : c.id = id).name, TRUE)
       ELSE Answer("get_campaign", h, 404, Nothing, "", TRUE)
    /\ UNCHANGED <<campaigns, interviews>>

\* the status submit_interview sends after the response was saved
SubmitStored == 200

\* submit_interview: the response is saved under a generated response_id and
\* the answer carries that id; an exception (validation, Firestore) gives 400
submit_interview(h) ==
    \/ \E r \in ResponseIds \ interviews :
          /\ interviews' = interviews \cup {r}
          /\ Answer("submit_interview", h, SubmitStored, r, "", TRUE)
          /\ UNCHANGED campaigns
    \/ /\ Answer("submit_interview", h, 400, Nothing, "", TRUE)
       /\ UNCHANGED <<campaigns, interviews>>

\* get_campaign_responses_endpoint
get_campaign_responses_endpoint(h) ==
    /\ Answer("get_campaign_responses_endpoint", h, 200, Nothing, "", TRUE)
    /\ UNCHANGED <<campaigns, interviews>>

\* Flask's view for static files
static(h) ==
    /\ Answer("static", h, 200, Nothing, "", TRUE)
    /\ UNCHANGED <<campaigns, interviews>>

\* app.view_functions[e] before the decorator loop
View(e, h, id, name) ==
    CASE e = "health_check" -> health_check(h)
      [] e = "create_campaign" -> create_campaign(h, id, name)
      [] e = "list_campaigns" -> list_campaigns(h)
      [] e = "get_campaign" -> get_campaign(h, id)
      [] e = "submit_interview" -> submit_interview(h)
      [] e = "get_campaign_responses_endpoint" -> get_campaign_responses_endpoint(h)
      [] e = "static" -> static(h)

\* require_api_key: the wrapper put around view function e
require_api_key(e, h, id, name) ==
    IF RuleOf(e) = <<"api", "health">>
    THEN View(e, h, id, name)
    ELSE IF ~KeyMatches(h)
         THEN /\ Answer(e, h, 401, Nothing, "", FALSE)
              /\ UNCHANGED <<campaigns, interviews>>
         ELSE View(e, h, id, name)

\* a request is dispatched to app.view_functions[e] as the loop left it
Dispatch(e, h, id, name) ==
    IF Wrapped(e) THEN require_api_key(e, h, id, name) ELSE View(e, h, id, name)

\* a request of any client
ClientRequest ==
    /\ \E e \in Endpoints, h \in Headers, id \in CampaignIds :
          Dispatch(e, h, id, "other")
    /\ UNCHANGED <<API_KEY, suite, session_key, campaign_id, campaign, response_id,
                   clientVars, ioVars, upVars>>

\* ------------------------------------------ cli_test.py: BackendTester
\* test_health, and run_full_test_suite's `if not self.test_health()`
TestHealth ==
    /\ suite = "health"
    /\ Dispatch("health_check", session_key, Nothing, "")
    /\ suite' = IF reply'.status = 200 THEN "create" ELSE "failed"
    /\ UNCHANGED <<API_KEY, session_key, campaign_id, campaign, response_id,
                   clientVars, ioVars, upVars>>

\* create_test_campaign: the tester's own campaign_id goes into the payload
\* and is what the method returns after a 201; `if not campaign_id` ends the
\* suite
CreateTestCampaign ==
    /\ suite = "create"
    /\ \E c \in ClientIds :
          /\ Dispatch("create_campaign", session_key, c, "suite")
          /\ campaign_id' = IF reply'.status = 201 THEN c ELSE Nothing
    /\ suite' = IF campaign_id' # Nothing THEN "list" ELSE "failed"
    /\ UNCHANGED <<API_KEY, session_key, campaign, response_id,
                   clientVars, ioVars, upVars>>

\* list_campaigns of the tester
ListCampaigns ==
    /\ suite = "list"
    /\ Dispatch("list_campaigns", session_key, Nothing, "")
    /\ suite' = "get"
    /\ UNCHANGED <<API_KEY, session_key, campaign_id, campaign, response_id,
                   clientVars, ioVars, upVars>>

\* BackendTester.get_campaign(campaign_id): the campaign of a 200, else {}
GetTestCampaign ==
    /\ suite = "get"
    /\ Dispatch("get_campaign", session_key, campaign_id, "")
    /\ campaign' = IF reply'.status = 200 THEN reply'.name ELSE ""
    /\ suite' = "submit"
    /\ UNCHANGED <<API_KEY, session_key, campaign_id, response_id,
                   clientVars, ioVars, upVars>>

\* the status the callers take for a stored submission (cli_test.py line 181,
\* interactive_interview.py line 391)
CallerExpects == 201

\* submit_test_interview: the response_id of the answer after the expected
\* status, else None
SubmitTestInterview ==
    /\ suite = "submit"
    /\ Dispatch("submit_interview", session_key, campaign_id, "")
    /\ response_id' = IF reply'.status = CallerExpects THEN reply'.id ELSE Nothing
    /\ suite' = "responses"
    /\ UNCHANGED <<API_KEY, session_key, campaign_id, campaign,
                   clientVars, ioVars, upVars>>

\* get_campaign_responses of the tester; the suite then returns True
GetTestResponses ==
    /\ suite = "responses"
    /\ Dispatch("get_campaign_responses_endpoint", session_key, campaign_id, "")
    /\ suite' = "done"
    /\ UNCHANGED <<API_KEY, session_key, campaign_id, campaign, response_id,
                   clientVars, ioVars, upVars>>

SuiteStep ==
    \/ TestHealth \/ CreateTestCampaign \/ ListCampaigns \/ GetTestCampaign
    \/ SubmitTestInterview \/ GetTestResponses

\* ------------------------------- upload_recording handled concurrently
Requests == {1, 2}
\* the audio file of request r
Audio(r) == r
Seconds == 0..MaxClock
BlobPaths == {FirebasePath(q, t) : q \in QIds, t \in Seconds}
NoUpReply == [status |-> 0, file_path |-> None, firebase_path |-> None]

\* lines 186-199: the fields are present; `filename` is the second the clock
\* shows and `local_path` is UPLOAD_FOLDER/filename
UpName(r) ==
    /\ upc[r] = "name"
    /\ \E t \in ClockValues :
          /\ now' = t
          /\ local_path' = [local_path EXCEPT ![r] = t]
    /\ upc' = [upc EXCEPT ![r] = "save"]
    /\ UNCHANGED <<form, files, blobs, upreply, clientVars, was, arg, out, dir,
                   participant_id, apiVars>>

\* `audio_file.save(local_path)`
UpSave(r) ==
    /\ upc[r] = "save"
    /\ files' = [files EXCEPT ![local_path[r]] = Audio(r)]
    /\ upc' = [upc EXCEPT ![r] = "upload"]
    /\ UNCHANGED <<form, local_path, blobs, upreply, now, clientVars, was, arg, out, dir,
                   participant_id, apiVars>>

\* `public_url = upload_audio(local_path, firebase_path)`: the content of the
\* local file goes to the blob at firebase_path; a file that cannot be opened
\* or a failure of the storage gives None
UpUpload(r) ==
    /\ upc[r] = "upload"
    /\ LET path == FirebasePath(form[r], local_path[r]) IN
          \/ /\ files[local_path[r]] # 0
             /\ blobs' = [blobs EXCEPT ![path] = files[local_path[r]]]
             /\ upreply' = [upreply EXCEPT ![r] = [status |-> 0, file_path |-> path,
                                                   firebase_path |-> path]]
          \/ /\ blobs' = blobs
             /\ upreply' = [upreply EXCEPT ![r] = [status |-> 0, file_path |-> None,
                                                   firebase_path |-> path]]
    /\ upc' = [upc EXCEPT ![r] = "remove"]
    /\ UNCHANGED <<form, local_path, files, now, clientVars, was, arg, out, dir,
                   participant_id, apiVars>>

\* `os.remove(local_path)` and the answer: 200, or 500 when the file is gone
UpRemove(r) ==
    /\ upc[r] = "remove"
    /\ IF files[local_path[r]] = 0
       THEN /\ upreply' = [upreply EXCEPT ![r] = [status |-> 500, file_path |-> None,
                                                  firebase_path |-> None]]
            /\ files' = files
       ELSE /\ upreply' = [upreply EXCEPT ![r].status = 200]
            /\ files' = [files EXCEPT ![local_path[r]] = 0]
    /\ upc' = [upc EXCEPT ![r] = "done"]
    /\ UNCHANGED <<form, local_path, blobs, now, clientVars, was, arg, out, dir,
                   participant_id, apiVars>>

upload_recording(r) == UpName(r) \/ UpSave(r) \/ UpUpload(r) \/ UpRemove(r)

\* no request is being served and no test suite is running
ServerIdle ==
    /\ API_KEY = ""
    /\ campaigns = {}
    /\ interviews = {}
    /\ reply = NoReply
    /\ suite = "off"
    /\ session_key = NoHeader
    /\ campaign_id = Nothing
    /\ campaign = ""
    /\ response_id = Nothing

NoUploads ==
    /\ form = [r \in Requests |-> QuestionId(1)]
    /\ upc = [r \in Requests |-> "off"]
    /\ local_path = [r \in Requests |-> 0]
    /\ files = [t \in Seconds |-> 0]
    /\ blobs = [p \in BlobPaths |-> 0]
    /\ upreply = [r \in Requests |-> NoUpReply]

\* ------------------------------------------------------------ initial state
\* AudioRecorder.__init__, CountdownTimer.__init__ and no thread started yet
InitObjects ==
    /\ recording = FALSE
    /\ audio_data = <<>>
    /\ stream_ref = None
    /\ thread_ref = None
    /\ lock = FALSE
    /\ sstate = [s \in RecIds |-> "none"]
    /\ closes = [s \in RecIds |-> 0]
    /\ cb = [s \in RecIds |-> "idle"]
    /\ rpc = [k \in RecIds |-> "none"]
    /\ held = [k \in RecIds |-> None]
    /\ nextRec = 1
    /\ running = FALSE
    /\ seconds \in 1..MaxSeconds
    /\ remaining = seconds
    /\ tpc = [k \in TimerIds |-> "none"]
    /\ tmp = [k \in TimerIds |-> 0]
    /\ fired = [k \in TimerIds |-> 0]
    /\ nextTimer = 1
    /\ result = -1
    /\ svlen = 0
    /\ wav = "none"
    /\ cancelled = FALSE
    /\ stopsDone = 0
    /\ stopReturned = FALSE
    /\ startsBegun = 0
    /\ calls = [c \in Clients |-> 0]
    /\ started = [t \in Callers |-> "none"]
    /\ ret = [t \in Callers |-> "off"]
    \* InteractiveInterview.__init__
    /\ cursor = 0
    /\ cmd = "none"
    /\ payload = NoRecordings
    /\ upq = 1
    /\ upi = 1
    /\ uploads = <<>>
    /\ posts = <<>>
    /\ stored = 0
    /\ submits = 0
    /\ was = 0
    /\ arg = NoArg
    /\ out = Quiet
    /\ dir = "present"
    /\ participant_id = "participant_1"
    /\ now = 0

\* run_interview after get_campaign has returned True, at the prompt
CampaignLoaded ==
    /\ recordings = NoRecordings
    /\ spc = "prompt"

\* ---------------------------------------------- one run of record_answer
Init ==
    /\ InitObjects
    /\ ServerIdle
    /\ NoUploads
    /\ CampaignLoaded
    /\ pc = [t \in Callers |-> IF t = "fg" THEN "ra_begin" ELSE "off"]

StartRecordingStep(t) ==
    \/ StartCheck(t) \/ StartLock(t) \/ StartSet(t)
    \/ StartMakeThread(t) \/ StartRunThread(t)

StopRecordingStep(t) ==
    \/ StopLock(t) \/ StopSet(t) \/ StopCheckStream(t) \/ StopStreamStop(t)
    \/ StopStreamClose(t) \/ StopClearStream(t) \/ StopCheckThread(t)
    \/ StopJoin(t) \/ StopClearThread(t) \/ StopReturn(t)

RecordThreadStep(k) ==
    \/ RecOpen(k) \/ RecEnter(k) \/ RecLoopExit(k) \/ RecScopeExit(k)
    \/ RecExcLock(k) \/ RecExcSet(k)

CallbackStep(s) == CallbackCheck(s) \/ CallbackLock(s) \/ CallbackAppend(s)

TimerStartStep(t) == TimerStartRun(t) \/ TimerStartRemaining(t) \/ TimerStartThread(t)

CountdownStep(k) ==
    TimerLoop(k) \/ TimerTick(k) \/ TimerDecrement(k) \/ TimerExpiryTest(k)

ForegroundStep ==
    \/ RecordAnswerBegin \/ UserStop \/ UserCancel
    \/ StopTimerThenSave \/ StopTimerThenCancel
    \/ SaveCheckEmpty \/ SaveReadBegin \/ SaveReadEnd
    \/ AttachRecording
    \/ TimerStartStep("fg")
    \/ StopRecordingStep("fg")

Next ==
    \/ ForegroundStep
    \/ StartRecordingStep("st")
    \/ \E k \in RecIds : RecordThreadStep(k)
    \/ \E s \in RecIds : CallbackStep(s)
    \/ \E k \in TimerIds : CountdownStep(k) \/ TimerFireStop(k)
    \/ StopRecordingStep("tm")

Spec == Init /\ [][Next]_vars

\* -------------------------- AudioRecorder on its own, called by two threads
\* A client thread that is not inside a call calls start_recording() or
\* stop_recording().
ClientStartRecording(c) ==
    /\ pc[c] = "idle"
    /\ calls[c] < MaxApiCalls
    /\ startsBegun < MaxRec
    /\ startsBegun' = startsBegun + 1
    /\ calls' = [calls EXCEPT ![c] = @ + 1]
    /\ Call(c, "start_chk", "idle")
    /\ UNCHANGED <<recVars, devVars, timerVars, raVars, stopsDone, stopReturned,
                   started, sessVars, ioVars, srvVars>>

ClientStopRecording(c) ==
    /\ pc[c] = "idle"
    /\ calls[c] < MaxApiCalls
    /\ calls' = [calls EXCEPT ![c] = @ + 1]
    /\ Call(c, "stop_lock", "idle")
    /\ UNCHANGED <<recVars, devVars, timerVars, raVars, stopsDone, stopReturned,
                   startsBegun, started, sessVars, ioVars, srvVars>>

InitRecorder ==
    /\ InitObjects
    /\ ServerIdle
    /\ NoUploads
    /\ CampaignLoaded
    /\ seconds = 1
    /\ pc = [t \in Callers |-> IF t \in Clients THEN "idle" ELSE "off"]

NextRecorder ==
    \/ \E c \in Clients :
          \/ ClientStartRecording(c) \/ ClientStopRecording(c)
          \/ StartRecordingStep(c) \/ StopRecordingStep(c)
    \/ \E k \in RecIds : RecordThreadStep(k)
    \/ \E s \in RecIds : CallbackStep(s)

SpecRecorder == InitRecorder /\ [][NextRecorder]_vars

\* ------------------------- CountdownTimer on its own, driven by one thread
\* The client calls start() on a timer that is not counting for it (a new
\* one, or one it has stopped), and stop() on one it has started.
ClientTimerStart(c) ==
    /\ pc[c] = "idle"
    /\ nextTimer = 1 \/ stopReturned
    /\ startsBegun < MaxTimerThreads
    /\ startsBegun' = startsBegun + 1
    /\ stopReturned' = FALSE
    /\ Call(c, "ts_run", "idle")
    /\ UNCHANGED <<recVars, devVars, timerVars, raVars, stopsDone, calls, started,
                   sessVars, ioVars, srvVars>>

ClientTimerStop(c) ==
    /\ pc[c] = "idle"
    /\ nextTimer > 1 /\ ~stopReturned
    /\ TimerStop
    /\ stopReturned' = TRUE
    /\ UNCHANGED <<recVars, devVars, callVars, remaining, seconds, tpc, tmp, fired,
                   nextTimer, raVars, stopsDone, startsBegun, started, calls, sessVars, ioVars, srvVars>>

InitTimer ==
    /\ InitObjects
    /\ ServerIdle
    /\ NoUploads
    /\ CampaignLoaded
    /\ pc = [t \in Callers |-> IF t = "c1" THEN "idle" ELSE "off"]

NextTimer ==
    \/ ClientTimerStart("c1") \/ ClientTimerStop("c1") \/ TimerStartStep("c1")
    \/ \E k \in TimerIds : CountdownStep(k) \/ TimerFireNote(k)

SpecTimer == InitTimer /\ [][NextTimer]_vars

\* ------------------------------------ the command loop of run_interview
\* run_interview is called on a new InteractiveInterview
InitSession ==
    /\ InitObjects
    /\ ServerIdle
    /\ NoUploads
    /\ seconds = 1
    /\ recordings = NoKeys
    /\ spc = "fetch"
    /\ pc = [t \in Callers |-> "off"]

SpecSession == InitSession /\ [][SessionNext]_vars

\* ------------------------------- save_recording after a capture has ended
MaxSaveChunks == 8   \* chunks in the buffer save_recording is given

\* buffers of one capture: every chunk was delivered by the first stream
Buffers == {[j \in 1..n |-> 1] : n \in 0..MaxSaveChunks}

\* record_answer after `recorder.stop_recording(); timer.stop()` (lines
\* 283-284), once the start thread, the record thread and the countdown
\* thread have ended: the recorder is idle and its buffer holds the chunks of
\* the capture
InitSave ==
    /\ ServerIdle
    /\ NoUploads
    /\ audio_data \in Buffers
    /\ recording = FALSE
    /\ stream_ref = None
    /\ thread_ref = None
    /\ lock = FALSE
    /\ sstate = [s \in RecIds |-> IF s = 1 THEN "closed" ELSE "none"]
    /\ closes = [s \in RecIds |-> IF s = 1 THEN 2 ELSE 0]
    /\ cb = [s \in RecIds |-> "idle"]
    /\ rpc = [k \in RecIds |-> IF k = 1 THEN "done" ELSE "none"]
    /\ held = [k \in RecIds |-> IF k = 1 THEN 1 ELSE None]
    /\ nextRec = 2
    /\ running = FALSE
    /\ seconds = 1
    /\ remaining = 1
    /\ tpc = [k \in TimerIds |-> IF k = 1 THEN "done" ELSE "none"]
    /\ tmp = [k \in TimerIds |-> 0]
    /\ fired = [k \in TimerIds |-> 0]
    /\ nextTimer = 2
    /\ result = -1
    /\ svlen = 0
    /\ wav = "none"
    /\ cancelled = FALSE
    /\ stopsDone = 1
    /\ stopReturned = TRUE
    /\ startsBegun = 0
    /\ calls = [c \in Clients |-> 0]
    /\ started = [t \in Callers |-> IF t = "st" THEN "begun" ELSE "none"]
    /\ pc = [t \in Callers |-> IF t = "fg" THEN "save_chk"
                               ELSE IF t = "st" THEN "st_done" ELSE "off"]
    /\ ret = [t \in Callers |-> IF t = "fg" THEN "ra_tstop"
                                ELSE IF t = "st" THEN "st_done" ELSE "off"]
    /\ cursor = 0
    /\ recordings = NoRecordings
    /\ spc = "prompt"
    /\ cmd = "none"
    /\ payload = NoRecordings
    /\ upq = 1
    /\ upi = 1
    /\ uploads = <<>>
    /\ posts = <<>>
    /\ stored = 0
    /\ submits = 0
    /\ was = 0
    /\ arg = NoArg
    /\ out = Quiet
    /\ dir = "present"
    /\ participant_id = "participant_1"
    /\ now = 0

\* save_recording, the stop_recording of the finally clause (which finds no
\* stream and no thread) and the attach
NextSave ==
    \/ SaveCheckEmpty \/ SaveReadBegin \/ SaveReadEnd
    \/ StopLock("fg") \/ StopSet("fg") \/ StopCheckStream("fg")
    \/ StopCheckThread("fg") \/ StopReturn("fg")
    \/ AttachRecording

SpecSave == InitSave /\ [][NextSave]_vars

\* ======================================================== claims on capture
RecordThreadRunning(k) == rpc[k] \in {"open", "enter", "loop", "exit", "exc_lock", "exc_set"}
RunningRecordThreads == {k \in RecIds : RecordThreadRunning(k)}
ActiveStreams == {s \in RecIds : sstate[s] = "active"}

\* C1: for one AudioRecorder, under every interleaving of start_recording and
\* stop_recording calls, at most one record thread is running and at most one
\* input stream is active at any time.
C1_AtMostOneCapture ==
    /\ Cardinality(RunningRecordThreads) <= 1
    /\ Cardinality(ActiveStreams) <= 1

\* the part of C1 about streams alone: two streams deliver chunks at once
C1_AtMostOneActiveStream == Cardinality(ActiveStreams) <= 1

\* C2: whichever of the timer callback, the foreground stop, the cancellation
\* handler and the final cleanup call stop_recording, and in whatever order,
\* the input stream of the cycle is closed at most once, the close made by the
\* record thread on leaving its stream scope included.
C2_StreamClosedOnce == \A s \in RecIds : closes[s] <= 1

\* C3: once a stop_recording call of the cycle has returned, no chunk is
\* appended to audio_data any more.
C3_NoAppendAfterStop ==
    [][stopsDone > 0 => Len(audio_data') # Len(audio_data) + 1]_vars

\* the part of C3 about save_recording: the buffer does not grow while
\* save_recording reads it
C3_NoAppendDuringSave == pc["fg"] = "save_in" => Len(audio_data) = svlen

\* threads inside an access to audio_data: the read of save_recording, the
\* append of _audio_callback, the reset of start_recording
BufferAccesses ==
    (IF pc["fg"] = "save_in" THEN 1 ELSE 0)
    + Cardinality({s \in RecIds : cb[s] = "locked"})
    + Cardinality({t \in Callers : pc[t] = "start_set"})

\* C4: every access to audio_data is made under the recorder's lock, so no two
\* threads are inside a read, an append or a reset of the buffer at the same
\* time, and save_recording reads only while it holds the lock.
C4_BufferAccessExclusive ==
    /\ BufferAccesses <= 1
    /\ pc["fg"] = "save_in" => lock

\* the part of C4 about overlap alone
C4_NoOverlap == BufferAccesses <= 1

\* ======================================================= claims on the timer
\* C5: once stop() has returned without the callback having been invoked, the
\* callback of that countdown is never invoked.
C5_NoCallbackAfterStop ==
    [][\A k \in TimerIds : (stopReturned /\ fired[k] = 0) => fired'[k] = 0]_vars

\* a stop() that returns while remaining is still positive is never followed
\* by the callback (one countdown, never restarted)
StoppedEarly == stopReturned /\ remaining > 0
NoCallbackAfterEarlyStop ==
    [][\A k \in TimerIds : (StoppedEarly /\ fired[k] = 0) => fired'[k] = 0]_vars

\* C6 as stated: a countdown that was never stopped invokes its callback
\* exactly once on reaching zero and is stopped afterwards (running is false).
C6_StoppedAfterExpiry ==
    \A k \in TimerIds :
        (~stopReturned /\ tpc[k] = "done") => (fired[k] = 1 /\ ~running)

\* C6 as amended: a countdown that was never stopped changes remaining only by
\* decrementing it by one, invokes its callback exactly once when its thread
\* ends at zero, and leaves running true.
C6_ExpiresOnce ==
    /\ \A k \in TimerIds : fired[k] <= 1
    /\ \A k \in TimerIds :
          (~stopReturned /\ tpc[k] = "done")
             => (fired[k] = 1 /\ remaining = 0 /\ running)
    /\ \A k \in TimerIds :
          (~stopReturned /\ tpc[k] = "dec") => (tmp[k] = remaining /\ remaining > 0)

\* a countdown of the longest duration has expired without a stop()
C6_ExpiredUnstopped == ~stopReturned /\ tpc[1] = "done" /\ fired[1] = 1 /\ seconds = MaxSeconds

\* countdown threads of starts earlier than the latest one
StaleTimerThread(k) == k < nextTimer - 1

\* C7: after stop() and a new start(), the countdown thread of the earlier
\* start neither decrements remaining nor invokes the callback.
C7_FreshCountdown ==
    [][\A k \in TimerIds :
          StaleTimerThread(k) =>
             /\ ~(tpc[k] = "dec" /\ tpc'[k] = "loop")
             /\ fired'[k] = fired[k]]_vars

\* ================================================== claims on the submission
\* every upload made for POST p returned a reference
AllUploaded(p) == \A j \in DOMAIN p.uploads : p.uploads[j].url # None

\* C8: when an upload of a submit has failed, no POST to interviews/submit is
\* made for that submit.
C8_NoPersistAfterFailedUpload ==
    \A i \in DOMAIN posts : AllUploaded(posts[i])

\* the part of C8 about the stored data: the endpoint never stores a payload
\* from which a recording is missing
C8_NoPartialPayloadStored ==
    \A i \in DOMAIN posts : Stores(posts[i].status) => AllUploaded(posts[i])

\* at least one question has an empty recording list
SomeQuestionEmpty == \E q \in QIds : recordings[q] = <<>>

\* C9: a submit command issued while some question has no recording makes no
\* upload call and no POST, stores nothing, leaves cursor and recordings
\* unchanged and returns to the prompt; and an upload or a POST is made only
\* in a state where every question has a recording.
C9_BlockedSubmitDoesNothing ==
    [][/\ (spc = "prompt" /\ cmd' = "submit" /\ SomeQuestionEmpty)
            => /\ spc' = "prompt"
               /\ uploads' = <<>> /\ posts' = <<>> /\ stored' = stored
               /\ cursor' = cursor /\ recordings' = recordings
       /\ (Len(uploads') > Len(uploads) \/ Len(posts') > Len(posts))
            => ~SomeQuestionEmpty
       /\ spc' \in {"confirm", "upload", "post"} => ~SomeQuestionEmpty]_vars

\* a submit command was just blocked in a session that holds a recording
C9_SubmitWasBlocked ==
    /\ spc = "prompt" /\ cmd = "submit"
    /\ SomeQuestionEmpty
    /\ \E q \in QIds : recordings[q] # <<>>
    /\ uploads = <<>> /\ posts = <<>>

\* the payload of POST p holds, for every question, one entry per attached
\* recording, in order, with its duration and the reference of its upload
PayloadComplete(p) ==
    \A q \in QIds :
        /\ Len(p.recordings[q]) = Len(p.attached[q])
        /\ \A j \in 1..Len(p.attached[q]) :
              /\ j <= Len(p.recordings[q])
              /\ p.recordings[q][j].question_id = q
              /\ p.recordings[q][j].duration_sec = p.attached[q][j].duration_sec
              /\ \E u \in DOMAIN p.uploads :
                    /\ p.uploads[u].question_id = q
                    /\ p.uploads[u].index = j
                    /\ p.uploads[u].url = p.recordings[q][j].file_path

\* C10: when every upload of a submit succeeded, one POST is made, after the
\* uploads, with one entry per attached recording, and submit_interview
\* returns the outcome of that POST: true exactly when the response was stored.
C10_SubmitReturnsPersistOutcome ==
    /\ Len(posts) <= 1
    /\ \A i \in DOMAIN posts :
          AllUploaded(posts[i]) =>
             /\ PayloadComplete(posts[i])
             /\ posts[i].returned = Stores(posts[i].status)

\* the part of C10 about the payload: it holds whatever the endpoint answers
C10_OnePostCompletePayload ==
    /\ Len(posts) <= 1
    /\ \A i \in DOMAIN posts : AllUploaded(posts[i]) => PayloadComplete(posts[i])

\* C11: over a whole session, whatever the commands, the submit endpoint
\* stores at most one response: once a response is stored the session has
\* ended.
C11_AtMostOneStored == stored <= 1

\* the part of C11 about the end of the session: a stored response ends the
\* command loop
C11_StoredEndsSession ==
    [][stored' > stored => spc' = "ended"]_vars

\* the part of C11 that rests on the client alone: a submit that is reported
\* successful ends the loop, so at most one submit is reported successful
C11_SuccessEndsSession ==
    [][(\E i \in DOMAIN posts' : posts'[i].returned) /\ posts' # posts
          => spc' = "ended"]_vars

RECURSIVE UploadOrderFrom(_, _)
\* the recordings of a session in the order the claims name: questions in
\* question order, the recordings of a question in attach order
UploadOrderFrom(i, recs) ==
    IF i > NumQuestions THEN <<>>
    ELSE [j \in 1..Len(recs[QuestionId(i)]) |-> <<QuestionId(i), j>>]
         \o UploadOrderFrom(i + 1, recs)
UploadOrder(recs) == UploadOrderFrom(1, recs)

\* the log of upload calls ups follows that order from its first call on (an
\* empty log does, whatever the recordings)
InUploadOrder(ups, recs) ==
    ups # <<>> =>
       /\ Len(ups) <= Len(UploadOrder(recs))
       /\ \A u \in DOMAIN ups :
             <<ups[u].question_id, ups[u].index>> = UploadOrder(recs)[u]

\* the durations of a list of recordings or payload entries, in order
Durations(list) == [j \in DOMAIN list |-> list[j].duration_sec]

\* C12: the uploads of a submit are made one after the other, questions in
\* question order and the recordings of a question in attach order, and the
\* payload list of every question is the sequence of its attached recordings
\* in attach order.
C12_UploadsAndPayloadInAttachOrder ==
    /\ InUploadOrder(uploads, recordings)
    /\ \A i \in DOMAIN posts :
          /\ InUploadOrder(posts[i].uploads, posts[i].attached)
          /\ \A q \in QIds :
                Durations(posts[i].recordings[q]) = Durations(posts[i].attached[q])

RECURSIVE KeptFrom(_, _, _, _)
\* the entries of question q the loop of submit_interview keeps, from the
\* j-th attached recording on, given the references its uploads returned
KeptFrom(j, q, p, start) ==
    IF j > Len(p.attached[q]) THEN <<>>
    ELSE (IF p.uploads[start + j].url # None
          THEN <<[question_id |-> q, file_path |-> p.uploads[start + j].url,
                  duration_sec |-> p.attached[q][j].duration_sec]>>
          ELSE <<>>)
         \o KeptFrom(j + 1, q, p, start)

RECURSIVE UploadsBefore(_, _)
\* the number of uploads made for the questions before position i
UploadsBefore(i, recs) ==
    IF i <= 1 THEN 0
    ELSE Len(recs[QuestionId(i - 1)]) + UploadsBefore(i - 1, recs)

\* the part of C12 about order alone: the uploads follow question and attach
\* order and every payload list holds, in attach order, the recordings whose
\* upload returned a reference
C12_OrderPreserved ==
    /\ InUploadOrder(uploads, recordings)
    /\ \A i \in DOMAIN posts :
          /\ InUploadOrder(posts[i].uploads, posts[i].attached)
          /\ Len(posts[i].uploads) = Len(UploadOrder(posts[i].attached))
          /\ \A n \in Positions :
                posts[i].recordings[QuestionId(n)] =
                   KeptFrom(1, QuestionId(n), posts[i],
                            UploadsBefore(n, posts[i].attached))

\* the upload calls of POST p made for the j-th recording of question q
UploadsOf(p, q, j) ==
    {u \in DOMAIN p.uploads : p.uploads[u].question_id = q /\ p.uploads[u].index = j}

\* C13: in a submit that passed the precondition, every recording attached to
\* every question is passed to upload_recording exactly once, whatever the
\* earlier uploads returned, and no upload is made for anything else.
C13_EveryRecordingUploadedOnce ==
    /\ \A i \in DOMAIN posts :
          /\ \A q \in QIds : \A j \in 1..Len(posts[i].attached[q]) :
                Cardinality(UploadsOf(posts[i], q, j)) = 1
          /\ \A u \in DOMAIN posts[i].uploads :
                /\ posts[i].uploads[u].question_id \in QIds
                /\ posts[i].uploads[u].index
                      \in 1..Len(posts[i].attached[posts[i].uploads[u].question_id])
    /\ \A u, v \in DOMAIN uploads :
          (uploads[u].question_id = uploads[v].question_id
             /\ uploads[u].index = uploads[v].index) => u = v

\* a submit has made all its uploads although the first one failed, for a
\* session in which the first question holds two recordings
C13_UploadedAfterFailure ==
    \E i \in DOMAIN posts :
        /\ Len(posts[i].attached[QuestionId(1)]) = 2
        /\ posts[i].uploads[1].url = None
        /\ Len(posts[i].uploads) >= 3

\* ================================================= claims on the recordings
\* C14: in every reachable state every recording held in recordings lasts at
\* least half a second (twice its frames are at least the sample rate),
\* whether the capture ended by the user's stop, by the timer or by a
\* cancellation.
C14_NoShortRecording ==
    \A q \in QIds : \A j \in DOMAIN recordings[q] :
        2 * recordings[q][j].duration_sec >= SampleRate

\* record_answer has attached a recording after the timer callback ran
C14_AttachedAfterExpiry ==
    /\ pc["fg"] = "ra_ret"
    /\ recordings[QuestionId(1)] # <<>>
    /\ \E k \in TimerIds : fired[k] = 1

\* the sample count of the buffer save_recording is given
BufferedFrames == Frames(Len(audio_data))
\* save_recording has returned
SaveReturned == result # -1 /\ ~cancelled
\* the recordings record_answer has attached to the question of the capture
Attached == recordings[QuestionId(1)]

\* C15 as stated: for every buffered sample count n, the capture produces a
\* recording exactly when n / sample_rate >= 0.5; below the threshold no file
\* is written, and a produced recording has the duration n / sample_rate.
C15_AttemptIffLongEnough ==
    SaveReturned =>
       /\ (result > 0) <=> (2 * BufferedFrames >= SampleRate)
       /\ 2 * BufferedFrames < SampleRate => wav = "none"
       /\ result > 0 => result = BufferedFrames
       /\ pc["fg"] = "ra_ret" =>
             ((Attached # <<>>) <=> (2 * BufferedFrames >= SampleRate))

\* C15 as amended: the capture produces a recording exactly when
\* n / sample_rate >= 0.5 and the file was written without error; below the
\* threshold no file is opened, at or above it the write is attempted, and a
\* produced recording has the duration n / sample_rate.
C15_AttemptIffLongEnoughAndWritten ==
    SaveReturned =>
       /\ (result > 0) <=> (2 * BufferedFrames >= SampleRate /\ wav = "written")
       /\ 2 * BufferedFrames < SampleRate => wav = "none"
       /\ 2 * BufferedFrames >= SampleRate => wav # "none"
       /\ result > 0 => result = BufferedFrames
       /\ pc["fg"] = "ra_ret" =>
             [j \in DOMAIN Attached |->
                 <<Attached[j].question_id, Attached[j].duration_sec>>]
               = IF result > 0 THEN << <<QuestionId(1), BufferedFrames>> >> ELSE <<>>

\* a recording of the shortest duration that passes the threshold was attached
C15_ShortestKeptAttached ==
    /\ pc["fg"] = "ra_ret"
    /\ 2 * BufferedFrames >= SampleRate
    /\ 2 * (BufferedFrames - ChunkFrames) < SampleRate
    /\ Attached # <<>>

\* C16: once save_recording has returned, whether it wrote the file, rejected
\* the recording as too short or failed while writing, audio_data is empty.
C16_BufferEmptyAfterSave == SaveReturned => audio_data = <<>>

\* the positions of a thread inside stop_recording
StopLabels == {"stop_lock", "stop_set", "stop_chk", "stop_stop", "stop_close",
               "stop_fin", "stop_thr", "stop_join", "stop_tfin", "stop_ret"}

\* the foreground is inside the stop_recording call of the finally clause of
\* record_answer, which begins after its first stop_recording has returned
InLaterStop ==
    /\ ret["fg"] = "ra_done"
    /\ pc["fg"] \in StopLabels

\* C17: a stop_recording call made after the first stop of the cycle has
\* returned leaves the recording flag, the buffer, the stream handle and the
\* thread handle as they are.
C17_LaterStopChangesNothing ==
    [][(InLaterStop /\ pc'["fg"] # pc["fg"])
          => /\ recording' = recording
             /\ audio_data' = audio_data
             /\ stream_ref' = stream_ref
             /\ thread_ref' = thread_ref]_vars

\* the recorder is idle: not recording, no stream handle, no thread handle
RecorderIdle == ~recording /\ stream_ref = None /\ thread_ref = None

\* the part of C17 about an idle recorder: a stop_recording step taken while
\* the recorder is idle changes none of the four
C17_StopOnIdleChangesNothing ==
    [][(RecorderIdle /\ \E t \in Callers :
            /\ pc'[t] # pc[t]
            /\ pc[t] \in StopLabels)
          => /\ recording' = recording
             /\ audio_data' = audio_data
             /\ stream_ref' = stream_ref
             /\ thread_ref' = thread_ref]_vars

\* thread t takes the test of start_recording and finds the recorder capturing
RejectedStart(t) == pc[t] = "start_chk" /\ pc'[t] # pc[t] /\ recording

\* C18: a start_recording call made while the recorder is capturing ends by
\* signalling an error to its caller, and leaves the recording flag, the
\* buffer, the stream handle and the thread handle unchanged.
C18_RejectedWithError ==
    [][\A t \in Callers :
          RejectedStart(t) =>
             /\ started'[t] = "raised"
             /\ recording' = recording /\ audio_data' = audio_data
             /\ stream_ref' = stream_ref /\ thread_ref' = thread_ref]_vars

\* the part of C18 about the state: the rejected call changes nothing and
\* starts no thread
C18_RejectedWithoutChange ==
    [][\A t \in Callers :
          RejectedStart(t) =>
             /\ pc'[t] = ret[t]
             /\ recording' = recording /\ audio_data' = audio_data
             /\ stream_ref' = stream_ref /\ thread_ref' = thread_ref
             /\ rpc' = rpc /\ nextRec' = nextRec]_vars

\* record_answer has returned after a cancellation
ReturnedCancelled == cancelled /\ pc["fg"] = "ra_ret"
\* no input stream is open or delivering
NoStreamOpen == \A s \in RecIds : sstate[s] \notin {"open", "active"}

\* C19: after a cancellation the capture has produced no recording and the
\* recordings of the session are unchanged, the countdown is stopped, and the
\* recorder is idle with its stream released and its buffer empty.
C19_CancelLeavesIdleAndEmpty ==
    ReturnedCancelled =>
       /\ recordings = NoRecordings
       /\ ~running
       /\ RecorderIdle
       /\ NoStreamOpen
       /\ audio_data = <<>>

\* the part of C19 about the session and the timer: a cancelled capture
\* attaches nothing, writes no file and has stopped the countdown
C19_CancelAttachesNothing ==
    cancelled =>
       /\ recordings = NoRecordings
       /\ wav = "none"
       /\ ~running

\* record_answer has returned to run_interview
Returned == pc["fg"] = "ra_ret"

\* C20: once record_answer has returned, by whatever path, the recorder is
\* and stays idle: it is not recording, no input stream is open, no record
\* thread is running and no chunk is being appended.
C20_IdleAfterReturn ==
    Returned =>
       /\ ~recording
       /\ NoStreamOpen
       /\ RunningRecordThreads = {}
       /\ \A s \in RecIds : cb[s] = "idle"

\* the part of C20 about the buffer: no chunk is appended after the return
C20_NoAppendAfterReturn ==
    [][Returned => Len(audio_data') <= Len(audio_data)]_vars

\* the part of C20 about the flag alone
C20_NotRecordingAfterReturn == Returned => ~recording

\* ================================================ claims on the command loop
\* the steps the thread of record_answer takes without input from the user:
\* everything but the return of `input()` at line 282
ForegroundAlone ==
    \/ RecordAnswerBegin
    \/ StopTimerThenSave \/ StopTimerThenCancel
    \/ SaveCheckEmpty \/ SaveReadBegin \/ SaveReadEnd
    \/ AttachRecording
    \/ TimerStartStep("fg")
    \/ StopRecordingStep("fg")

\* Every thread of the run that can take a step eventually takes one (the
\* interpreter switches between runnable threads, the audio host keeps
\* delivering chunks to an active stream); nothing obliges the user to press
\* ENTER or Ctrl-C.
ThreadsProgress ==
    /\ WF_vars(ForegroundAlone)
    /\ WF_vars(StartRecordingStep("st"))
    /\ \A k \in RecIds : WF_vars(RecordThreadStep(k))
    /\ \A s \in RecIds : WF_vars(CallbackStep(s))
    /\ \A k \in TimerIds : WF_vars(CountdownStep(k) \/ TimerFireStop(k))
    /\ WF_vars(StopRecordingStep("tm"))

\* one run of record_answer with threads that make progress
SpecLive == Init /\ [][Next]_vars /\ ThreadsProgress

\* the callback of a countdown has been invoked
TimerFired == \E k \in TimerIds : fired[k] > 0
\* record_answer is inside `input()` of line 282
WaitingForUser == pc["fg"] = "ra_input"

\* C21: when the countdown has expired while record_answer waits at
\* `input()`, record_answer goes on by itself: the buffer is saved, the
\* recording is attached and record_answer returns, without any input from
\* the user.
C21_ExpiryEndsRecordAnswer == (TimerFired /\ WaitingForUser) ~> Returned

\* the part of C21 about the timer callback: an expired countdown's callback
\* runs stop_recording to its end
C21_ExpiryStopsRecorder == TimerFired ~> (pc["tm"] = "tm_done")

\* record_answer never leaves `input()` by itself: a step that leaves it is
\* the user's ENTER or Ctrl-C
C21_OnlyUserEndsWait ==
    [][(WaitingForUser /\ ~WaitingForUser')
          => pc'["fg"] = "stop_lock" /\ ret'["fg"] \in {"ra_tstop", "ra_ctstop"}]_vars

\* C22: in every reachable state of a session (the campaign has questions),
\* whatever commands were given, the cursor is a valid index:
\* 0 <= current_question_index < number of questions.
C22_CursorIsValidIndex == 0 <= cursor /\ cursor < NumQuestions

\* 'next' was given at the last question and the cursor stayed there
C22_NextAtLastQuestion ==
    /\ cmd = "next"
    /\ was = NumQuestions - 1
    /\ cursor = NumQuestions - 1
    /\ out.msg = "last"

\* C23: navigation never wraps and rejects without changing the cursor.
\* 'goto' with a number outside 1..len(questions) prints the out-of-range
\* message and leaves the cursor unchanged, 'goto k' with k in range sets the
\* cursor to k - 1; 'next' at the last index and 'prev' at index 0 print the
\* boundary message and leave the cursor unchanged, and otherwise move it by
\* exactly one.
C23_NavigationRejectsWithoutMutation ==
    /\ (cmd = "goto" /\ arg.kind = "int") =>
          IF arg.n \in 1..NumQuestions
          THEN cursor = arg.n - 1 /\ out.msg = "none"
          ELSE cursor = was /\ out.msg = "range"
    /\ cmd = "next" =>
          IF was = NumQuestions - 1
          THEN cursor = was /\ out.msg = "last"
          ELSE cursor = was + 1 /\ out.msg = "none"
    /\ cmd = "prev" =>
          IF was = 0
          THEN cursor = was /\ out.msg = "first"
          ELSE cursor = was - 1 /\ out.msg = "none"

\* 'goto' was given with the number just past the last question, from a
\* question other than the first
C23_GotoPastLastRejected ==
    /\ cmd = "goto"
    /\ arg = IntArg(NumQuestions + 1)
    /\ was > 0
    /\ cursor = was
    /\ out.msg = "range"

\* the rest of the goto branch: an argument that is no number prints "Invalid
\* question number", no argument or several print nothing, and all of them
\* leave the cursor unchanged
C23_GotoWithoutNumber ==
    (cmd = "goto" /\ arg.kind # "int") =>
       /\ cursor = was
       /\ out.msg = IF arg.kind = "word" THEN "invalid" ELSE "none"

\* the campaign has been loaded: get_campaign has returned True
Loaded == spc \notin {"fetch", "failed"}
\* list a is list b, or b with one element added at its end
SameOrAppended(a, b) ==
    \/ b = a
    \/ Len(b) = Len(a) + 1 /\ SubSeq(b, 1, Len(a)) = a

\* C24: once the campaign is loaded, the keys of recordings are exactly the
\* loaded question ids, and every step leaves each question's list unchanged
\* or adds one element at its end: none is removed, replaced or reordered, a
\* failed submit included.
C24_KeysFixedListsAppendOnly ==
    [][/\ Loaded' => DOMAIN recordings' = QIds
       /\ Loaded => \A q \in QIds : SameOrAppended(recordings[q], recordings'[q])]_vars

\* a second recording, of another duration, was attached to the first
\* question and a submit has since failed
C24_SecondAttachedThenSubmitFailed ==
    /\ Loaded
    /\ Len(recordings[QuestionId(1)]) = 2
    /\ recordings[QuestionId(1)][1].duration_sec # recordings[QuestionId(1)][2].duration_sec
    /\ submits > 0
    /\ spc = "prompt"

\* run_interview has left its try statement and its finally clause has run:
\* after a failed fetch, a confirmed quit or a successful submit, or after an
\* exception or interrupt
Terminated == spc \in {"failed", "ended", "crashed"}

\* C25: whenever run_interview has terminated, by whatever path, the
\* directory of temporary recordings has been removed.
C25_DirectoryRemovedAtReturn == Terminated => dir = "removed"

\* the part of C25 about the session in progress: the directory is removed
\* by nothing but the finally clause, so it exists while commands are read
C25_DirectoryKeptWhileActive == ~Terminated => dir = "present"

\* the part of C25 about the finally clause: every path out of run_interview
\* is a step that runs cleanup_temp_files, and no other step touches the
\* directory
C25_CleanupOnlyOnExit ==
    [][dir' # dir => (~Terminated /\ Terminated')]_vars

\* the POST of the latest submit failed: it raised, or was answered with a
\* status other than the two with which a response is stored
PersistFailed(p) == p.status \notin {200, 201}

\* C26: when the POST of a submit fails (an error status or a transport
\* error) after every upload succeeded, submit_interview returns False, and
\* the session stays at the prompt with cursor and recordings unchanged, so
\* that the submit can be given again.
C26_FailedPersistKeepsSession ==
    [][\A i \in DOMAIN posts' :
          (posts' # posts /\ PersistFailed(posts'[i]) /\ AllUploaded(posts'[i]))
             => /\ ~posts'[i].returned
                /\ spc' = "prompt"
                /\ cursor' = cursor
                /\ recordings' = recordings
                /\ recordings' = posts'[i].attached
                /\ stored' = stored
                /\ dir' = dir]_vars

\* a POST has failed after all uploads of a session with two recordings of
\* one question succeeded, and the session is at the prompt of a later
\* question
C26_PersistFailedAtPrompt ==
    /\ spc = "prompt"
    /\ cursor > 0
    /\ \E i \in DOMAIN posts :
          /\ PersistFailed(posts[i])
          /\ AllUploaded(posts[i])
          /\ Len(posts[i].uploads) > NumQuestions
          /\ ~posts[i].returned

\* the retry: a later submit is at its POST after an earlier one was not
\* stored (a reachable state)
C26_RetryAtPost == spc = "post" /\ submits > 0 /\ stored = 0

\* `sd.InputStream(...)` raised in record thread k: the thread is in, or has
\* left, its handler and its stream was never opened
OpenFailed(k) == rpc[k] \in {"exc_lock", "exc_set", "done"} /\ sstate[k] = "none"
\* the handler of record thread k has run to its end
HandlerDone(k) == OpenFailed(k) /\ rpc[k] = "done"

\* C27: when opening the input stream failed, the failure ends that capture
\* only.  Nothing is captured, written or attached and the cursor, the
\* recordings and the command loop are as before; and once the failure has
\* been handled and record_answer has returned, the recorder is idle: it is
\* not recording, it holds no stream, no stream is open, no record thread is
\* running and no chunk is being appended.
C27_OpenFailureEndsOnlyTheCapture ==
    /\ (\E k \in RecIds : OpenFailed(k)) =>
          /\ audio_data = <<>>
          /\ wav = "none"
          /\ recordings = NoRecordings
          /\ cursor = 0
          /\ spc = "prompt"
    /\ (Returned /\ \E k \in RecIds : HandlerDone(k)) =>
          /\ ~recording
          /\ stream_ref = None
          /\ NoStreamOpen
          /\ RunningRecordThreads = {}
          /\ \A s \in RecIds : cb[s] = "idle"

\* record_answer has returned after a capture whose stream could not be
\* opened; the user's stop found the ended record thread and cleared it
C27_ReturnedAfterOpenFailure ==
    /\ Returned
    /\ HandlerDone(1)
    /\ started["st"] = "begun"
    /\ ~cancelled
    /\ RecorderIdle

\* a stronger reading of idle, with the thread handle cleared as well; it is
\* not an invariant: when start_recording runs after the stop_recording calls
\* of record_answer (see C20), the handle of the ended thread is kept
C27_ThreadHandleCleared ==
    (Returned /\ \E k \in RecIds : HandlerDone(k)) => thread_ref = None

\* the positions of the questions whose recording list is empty
EmptyPositions == {i \in Positions : recordings[QuestionId(i)] = <<>>}
\* list l holds strictly increasing numbers
Increasing(l) == \A i, j \in DOMAIN l : i < j => l[i] < l[j]
\* the latest command was a submit that was blocked
SubmitBlocked == cmd = "submit" /\ out.msg = "blocked"

\* C28: the list printed by a blocked submit holds exactly the 1-based
\* positions of the questions whose recording list is empty, in question
\* order: no answered question is listed, no unanswered one is left out; and
\* a submit is blocked exactly when there is such a question.
C28_BlockedSubmitListsUnanswered ==
    /\ SubmitBlocked =>
          /\ {out.list[j] : j \in DOMAIN out.list} = EmptyPositions
          /\ Increasing(out.list)
          /\ out.list # <<>>
    /\ (cmd = "submit" /\ spc = "prompt" /\ submits = 0 /\ ~SubmitBlocked
          /\ uploads = <<>> /\ posts = <<>>) => EmptyPositions = {}

\* a submit was blocked in a session whose first question is answered and
\* whose last is not
C28_BlockedWithLastUnanswered ==
    /\ SubmitBlocked
    /\ recordings[QuestionId(1)] # <<>>
    /\ out.list = <<NumQuestions>>

\* C29: two different recordings of a session are never stored under the
\* same destination path: the uploads of a submit that succeeded have
\* pairwise different paths, however close in time they are made.
C29_DistinctDestinationPaths ==
    \A u, v \in DOMAIN uploads :
        (u # v /\ uploads[u].url # None) => uploads[u].url # uploads[v].url

\* the part of C29 that the path of the endpoint does give: recordings of
\* different questions never share a path, and recordings uploaded in
\* different seconds never do
C29_DistinctAcrossQuestionsAndSeconds ==
    /\ \A u, v \in DOMAIN uploads :
          (uploads[u].question_id # uploads[v].question_id /\ uploads[u].url # None)
             => uploads[u].url # uploads[v].url
    /\ \A q \in QIds : \A s, t \in 0..MaxClock :
          s # t => FirebasePath(q, s) # FirebasePath(q, t)

\* the commands that only read the session: status, help, replay, unknown
\* ones, and a quit that is not confirmed
ReadOnlyCommands == {"status", "help", "replay", "unknown", "quit"}
\* the step is one of these commands, which ends at the prompt again, or the
\* refusal of the confirmation of a submit
ReadOnlyStep ==
    \/ spc = "prompt" /\ spc' = "prompt" /\ cmd' \in ReadOnlyCommands
    \/ spc = "confirm" /\ spc' = "prompt"

\* C30: status, help, replay, unknown commands, and a submit or a quit that
\* is not confirmed, leave cursor, recordings and participant_id unchanged
\* (and, with them, the stored responses and the temporary directory); and
\* status prints the number of the current question, the number of questions
\* and a total equal to the sum of the lengths of all recording lists.
C30_ReadsLeaveSessionUnchanged ==
    [][/\ ReadOnlyStep =>
             /\ cursor' = cursor
             /\ recordings' = recordings
             /\ participant_id' = participant_id
             /\ stored' = stored
             /\ dir' = dir
       /\ (spc = "prompt" /\ cmd' = "status") =>
             /\ out'.msg = "status"
             /\ out'.index = cursor + 1
             /\ out'.total = Cardinality(QIds)
             /\ out'.count = Len(UploadOrder(recordings))
       /\ participant_id' = participant_id]_vars

\* status was given at the last question of a session that holds more
\* recordings than it has questions
C30_StatusWithSeveralRecordings ==
    /\ cmd = "status"
    /\ cursor = NumQuestions - 1
    /\ out.index = NumQuestions
    /\ out.count > NumQuestions

\* ------------------------------------------------------------------ C31
\* C31: while a countdown is running the remaining value stays within
\* 0..seconds: it never becomes negative and never exceeds the limit, also
\* when stop() and start() are called again while the countdown thread of
\* an earlier start() is still in its tick.
C31_RemainingWithinRange ==
    running => (0 <= remaining /\ remaining <= seconds)

\* C31, second half: while the countdown is running no step of a countdown
\* thread raises the remaining value (the steps of start(), which begin a
\* new countdown, are not counted).
C31_TickNeverIncreases ==
    [][(running /\ running' /\ pc' = pc) => remaining' <= remaining]_vars

\* the value never exceeds the limit, whatever the interleaving
C31_NeverAboveLimit == remaining <= seconds

\* a single countdown, with no earlier thread alive, stays within range
C31_SingleCountdownWithinRange ==
    nextTimer = 2 => (0 <= remaining /\ remaining <= seconds)

\* two countdown threads are in the loop of one running countdown
C31_TwoThreadsTicking ==
    /\ running
    /\ \A k \in TimerIds : tpc[k] \in {"loop", "sleep", "dec"}

\* ------------------------------------------------------------------ C34
\* C34: a step that stores a recording leaves the cursor where it was when
\* the record command was read, and adds the recording to the list keyed by
\* the id of the question at that cursor; the recording's own question_id is
\* that key.
C34_FiledUnderQuestionAtCursor ==
    [][(Loaded /\ recordings' # recordings) =>
          /\ cursor' = cursor
          /\ was' = cursor
          /\ \A q \in QIds :
                recordings'[q] # recordings[q] =>
                   /\ q = QuestionId(was' + 1)
                   /\ recordings'[q][Len(recordings'[q])].question_id = q]_vars

\* C34 as a state property: every stored recording carries the key of the
\* list that holds it
C34_QuestionIdIsKey ==
    Loaded => \A q \in QIds : \A j \in DOMAIN recordings[q] :
                 recordings[q][j].question_id = q

\* the record command was given at the second question, after the cursor
\* had moved, and its recording was stored
C34_RecordedAtSecondQuestion ==
    /\ Loaded
    /\ cmd = "record"
    /\ was = 1
    /\ cursor = 1
    /\ recordings[QuestionId(2)] # <<>>
    /\ recordings[QuestionId(1)] = <<>>

\* ------------------------------------------------------------------ C37
\* C37: two different recordings stored in the session never share a
\* file_path, also when they are recordings of one question saved within the
\* same second.
C37_DistinctLocalPaths ==
    Loaded =>
       \A q1 \in QIds, q2 \in QIds :
          \A j1 \in DOMAIN recordings[q1] : \A j2 \in DOMAIN recordings[q2] :
             <<q1, j1>> # <<q2, j2>> =>
                recordings[q1][j1].file_path # recordings[q2][j2].file_path

\* recordings of different questions never share a file_path
C37_DistinctAcrossQuestions ==
    Loaded =>
       \A q1 \in QIds, q2 \in QIds :
          \A j1 \in DOMAIN recordings[q1] : \A j2 \in DOMAIN recordings[q2] :
             q1 # q2 => recordings[q1][j1].file_path # recordings[q2][j2].file_path

\* recordings of one question saved in different seconds have different paths
C37_DistinctAcrossSeconds ==
    [][Loaded /\ now' > now =>
          \A q \in QIds :
             recordings'[q] # recordings[q] =>
                \A j \in DOMAIN recordings[q] :
                   recordings[q][j].file_path
                      # recordings'[q][Len(recordings'[q])].file_path]_vars

\* ------------------------------------- the server and run_full_test_suite
\* the application is serving with some configured key; the tester's session
\* sends no X-API-Key header as cli_test.py builds it (line 21), or the
\* header its caller or a proxy in front of base_url adds; the suite begins
InitServer ==
    /\ InitObjects
    /\ seconds = 1
    /\ CampaignLoaded
    /\ NoUploads
    /\ pc = [t \in Callers |-> "off"]
    /\ API_KEY \in Keys
    /\ campaigns = {}
    /\ interviews = {}
    /\ reply = NoReply
    /\ suite = "health"
    /\ session_key \in Headers
    /\ campaign_id = Nothing
    /\ campaign = ""
    /\ response_id = Nothing

NextServer == SuiteStep \/ ClientRequest

SpecServer == InitServer /\ [][NextServer]_vars

\* ----------------------------- two upload requests handled concurrently
\* two requests with the key have passed the wrapper and their handlers run
\* in two threads of the server
InitUpload ==
    /\ InitObjects
    /\ seconds = 1
    /\ CampaignLoaded
    /\ ServerIdle
    /\ pc = [t \in Callers |-> "off"]
    /\ form \in [Requests -> QIds]
    /\ upc = [r \in Requests |-> "name"]
    /\ local_path = [r \in Requests |-> 0]
    /\ files = [t \in Seconds |-> 0]
    /\ blobs = [p \in BlobPaths |-> 0]
    /\ upreply = [r \in Requests |-> NoUpReply]

NextUpload == \E r \in Requests : upload_recording(r)

SpecUpload == InitUpload /\ [][NextUpload]_vars

\* ------------------------------------------------------------------ C32
\* C32: the campaign id create_test_campaign returns after a 201 response is
\* an id under which the server has stored a campaign.
C32_ReturnedIdIsStoredId ==
    campaign_id # Nothing => campaign_id \in StoredIds

\* C32, the round trip: once the suite has made its GET with the returned
\* id, it holds the campaign it created.
C32_GetRetrievesCreated ==
    suite \in {"submit", "responses", "done"} => campaign = "suite"

\* the id the create endpoint answers with is the id it stored the campaign
\* under
C32_AnsweredIdIsStored ==
    [][(reply'.endpoint = "create_campaign" /\ reply'.status = 201) =>
          /\ reply'.id \in StoredIds'
          /\ reply'.id \notin StoredIds]_vars

\* a session that sends no X-API-Key header does not get past the creation
C32_SuiteWithoutKeyStopsAtCreate ==
    ~session_key.present => suite \in {"health", "create", "failed"}

\* ------------------------------------------------------------------ C33
\* C33: in the step in which submit_test_interview posts the interview, the
\* endpoint stores a response exactly when the caller gets a response_id,
\* and the id it gets is the id of the stored response.
C33_CallerAgreesWithEndpoint ==
    [][(suite = "submit" /\ suite' = "responses") =>
          /\ interviews' # interviews =>
                /\ response_id' # Nothing
                /\ interviews' = interviews \cup {response_id'}
          /\ response_id' = Nothing => interviews' = interviews]_vars

\* an answer of 400 or 401 from the submit endpoint means nothing was stored
C33_ErrorAnswerStoresNothing ==
    [][(reply'.endpoint = "submit_interview" /\ reply'.status \in {400, 401}) =>
          interviews' = interviews]_vars

\* the caller never reports a submission that was not stored
C33_ReportedIdIsStored ==
    response_id # Nothing => response_id \in interviews

C35_HealthServedWithoutKey ==
    /\ reply.endpoint = "health_check"
    /\ ~reply.key.present
    /\ reply.status = 200

\* ------------------------------------------------------------------ C36
\* C36: of two upload requests for different questions handled concurrently,
\* each one that is answered 200 with a file_path has its own audio in the
\* blob at that path.
C36_OwnAudioUnderOwnDestination ==
    form[1] # form[2] =>
       \A r \in Requests :
          (upc[r] = "done" /\ upreply[r].status = 200 /\ upreply[r].file_path # None) =>
             blobs[upreply[r].file_path] = Audio(r)

\* C36: no request fails because the other removed its local file
C36_NoRequestFailsFromOther ==
    \A r \in Requests : upreply[r].status # 500

\* requests named in different seconds do not disturb each other
C36_DifferentSecondsUndisturbed ==
    (upc[1] # "name" /\ upc[2] # "name" /\ local_path[1] # local_path[2]) =>
       \A r \in Requests :
          /\ upreply[r].status # 500
          /\ (upc[r] = "done" /\ upreply[r].file_path # None) =>
                blobs[upreply[r].file_path] = Audio(r)

=============================================================================
